---- MODULE Spec2Model ----
(***************************************************************************)
(* Tailscale MCP server: startup (main), credential resolution             *)
(* (config.LoadConfig), the shared client handle (client.TailscaleClient), *)
(* the five tool catalogs and their 42 handlers.                           *)
(*                                                                         *)
(* Text is modelled as a sequence of words (the Go string split at its     *)
(* spaces), so that prefixes and suffixes of messages can be compared.     *)
(* A Go error is the sequence of words of its Error() text; the nil error  *)
(* is the empty sequence.                                                  *)
(***************************************************************************)
EXTENDS Integers, Sequences, FiniteSets, TLC

VARIABLES pc, env, cfg, tc, probe, fatal, registry, call, mu, disp, policy

vars == <<pc, env, cfg, tc, probe, fatal, registry, call, mu, disp, policy>>

(***************************************************************************)
(* Bounds of the model.                                                    *)
(***************************************************************************)
\* A call's argument object supplies at most this many of the tool's
\* declared parameters.
MaxSupplied == 2

\* The number of tool calls the server may be handling at the same time.
MaxDispatches == 3

\* A call may carry an undeclared field next to at most this many declared
\* ones.
MaxWithUnknown == 1

\* The number of writing tool calls the server may be handling at the same
\* time.
MaxWriters == 2

(***************************************************************************)
(* Go values.                                                              *)
(***************************************************************************)
NoErr == <<>>

NilResult == [nil |-> TRUE]

NilConfig == [nil |-> TRUE]

NilClient == [nil |-> TRUE]

\* A nil pointer and a pointer to v (the *bool, *int and *string fields).
NilPtr == [set |-> FALSE]

Ptr(v) == [set |-> TRUE, v |-> v]

FmtBool(b) == IF b THEN "true" ELSE "false"

\* fmt's %v of a []string: [a b c]
FmtSlice(s) == <<"[">> \o s \o <<"]">>

\* fmt.Sprintf(format, v) where the format ends in its only verb.
Sprintf(format, v) == format \o v

(***************************************************************************)
(* JSON values as they arrive in CallToolRequest.Params.Arguments.         *)
(***************************************************************************)
NilArgs == [kind |-> "nil"]

JStr(s) == [kind |-> "string", s |-> s]

JBool(b) == [kind |-> "bool", b |-> b]

JNum(n) == [kind |-> "number", n |-> n]

JArr(a) == [kind |-> "array", a |-> a]

JObj(f) == [kind |-> "object", fields |-> f]

(***************************************************************************)
(* encoding/json decoding of one JSON value into a Go field of the given   *)
(* type.  A value of the wrong JSON kind is an UnmarshalTypeError.         *)
(***************************************************************************)
ZeroValue(gotype) ==
  CASE gotype = "string" -> ""
    [] gotype = "bool" -> FALSE
    [] gotype = "int" -> 0
    [] gotype = "[]string" -> <<>>
    [] OTHER -> NilPtr

JsonKindOf(gotype) ==
  CASE gotype \in {"string", "*string"} -> "string"
    [] gotype \in {"bool", "*bool"} -> "bool"
    [] gotype \in {"int", "*int"} -> "number"
    [] OTHER -> "array"

IsPointer(gotype) == gotype \in {"*string", "*bool", "*int"}

FieldFits(j, gotype) == j.kind = JsonKindOf(gotype)

FieldValue(j, gotype) ==
  LET raw == CASE j.kind = "string" -> j.s
               [] j.kind = "bool" -> j.b
               [] j.kind = "number" -> j.n
               [] OTHER -> j.a
  IN IF IsPointer(gotype) THEN Ptr(raw) ELSE raw

UnmarshalTypeError(j, name, gotype) ==
  <<"json:", "cannot", "unmarshal", j.kind, "into", "Go", "struct", "field",
    name, "of", "type", gotype>>

\* var args struct{...}: every field holds its zero value.
ZeroStruct(struct) == [n \in DOMAIN struct |-> ZeroValue(struct[n])]

\* Faulty variant of BindArguments: a key the struct does not name is an
\* error, as with json.Decoder.DisallowUnknownFields.
BindArguments_Strict(arguments, struct) ==
  LET zero == ZeroStruct(struct)
  IN CASE arguments.kind = "nil" -> [err |-> NoErr, val |-> zero]
       [] arguments.kind = "object" ->
            LET f == arguments.fields
                supplied == DOMAIN f \cap DOMAIN struct
                bad == {n \in supplied : ~FieldFits(f[n], struct[n])}
            IN IF DOMAIN f \ DOMAIN struct # {}
               THEN [err |-> <<"json:", "unknown", "field">>, val |-> zero]
               ELSE IF bad # {}
               THEN LET n == CHOOSE m \in bad : TRUE
                    IN [err |-> UnmarshalTypeError(f[n], n, struct[n]),
                        val |-> zero]
               ELSE [err |-> NoErr,
                     val |-> [n \in DOMAIN struct |->
                                IF n \in supplied
                                THEN FieldValue(f[n], struct[n])
                                ELSE zero[n]]]
       [] OTHER ->
            [err |-> <<"json:", "cannot", "unmarshal", arguments.kind, "into",
                       "Go", "value", "of", "type", "struct">>,
             val |-> zero]

\* Faulty variant of BindArguments: absent arguments are an error.
BindArguments_NilRejected(arguments, struct) ==
  LET zero == ZeroStruct(struct)
  IN CASE arguments.kind = "object" ->
            LET f == arguments.fields
                supplied == DOMAIN f \cap DOMAIN struct
                bad == {n \in supplied : ~FieldFits(f[n], struct[n])}
            IN IF bad # {}
               THEN LET n == CHOOSE m \in bad : TRUE
                    IN [err |-> UnmarshalTypeError(f[n], n, struct[n]),
                        val |-> zero]
               ELSE [err |-> NoErr,
                     val |-> [n \in DOMAIN struct |->
                                IF n \in supplied
                                THEN FieldValue(f[n], struct[n])
                                ELSE zero[n]]]
       [] OTHER ->
            [err |-> <<"json:", "cannot", "unmarshal", arguments.kind, "into",
                       "Go", "value", "of", "type", "struct">>,
             val |-> zero]

\* CallToolRequest.BindArguments: json.Marshal of the arguments followed by
\* json.Unmarshal into the handler's struct.  struct maps each json tag to
\* its Go type.  Absent arguments marshal to null, which leaves the struct
\* untouched; keys the struct does not name are ignored; keys the call does
\* not supply keep the zero value.
BindArguments(arguments, struct) ==
  LET zero == ZeroStruct(struct)
  IN CASE arguments.kind = "nil" -> [err |-> NoErr, val |-> zero]
       [] arguments.kind = "object" ->
            LET f == arguments.fields
                supplied == DOMAIN f \cap DOMAIN struct
                bad == {n \in supplied : ~FieldFits(f[n], struct[n])}
            IN IF bad # {}
               THEN LET n == CHOOSE m \in bad : TRUE
                    IN [err |-> UnmarshalTypeError(f[n], n, struct[n]),
                        val |-> zero]
               ELSE [err |-> NoErr,
                     val |-> [n \in DOMAIN struct |->
                                IF n \in supplied
                                THEN FieldValue(f[n], struct[n])
                                ELSE zero[n]]]
       [] OTHER ->
            [err |-> <<"json:", "cannot", "unmarshal", arguments.kind, "into",
                       "Go", "value", "of", "type", "struct">>,
             val |-> zero]

(***************************************************************************)
(* mcp.CallToolResult and its two constructors.                            *)
(***************************************************************************)
NewToolResultText(text) ==
  [content |-> <<[type |-> "text", text |-> text]>>, isError |-> FALSE]

NewToolResultError(text) ==
  [content |-> <<[type |-> "text", text |-> text]>>, isError |-> TRUE]

(***************************************************************************)
(* Values returned by the remote API and their JSON encoding.              *)
(* A value is the sequence of its fields in declaration order; a field is  *)
(* a string or a time.  time.Time.MarshalJSON fails for a year outside     *)
(* [0,9999], which makes json.MarshalIndent fail for the whole value.      *)
(***************************************************************************)
NoValue == <<>>

StrField(k, s) == [k |-> k, kind |-> "string", s |-> s]

TimeField(k, year, text) == [k |-> k, kind |-> "time", year |-> year, s |-> text]

Quote(s) == "\"" \o s \o "\""

RECURSIVE MarshalFields(_)
MarshalFields(fs) ==
  IF fs = <<>> THEN [err |-> NoErr, text |-> <<>>]
  ELSE LET f == Head(fs)
           rest == MarshalFields(Tail(fs))
       IN IF f.kind = "time" /\ f.year \notin 0..9999
          THEN [err |-> <<"json:", "error", "calling", "MarshalJSON", "for",
                          "type", "time.Time:", "year", "outside", "of",
                          "range", "[0,9999]">>,
                text |-> <<>>]
          ELSE IF rest.err # NoErr THEN rest
          ELSE [err |-> NoErr,
                text |-> <<Quote(f.k) \o ":",
                           Quote(f.s) \o (IF Tail(fs) = <<>> THEN "" ELSE ",")>>
                         \o rest.text]

\* json.MarshalIndent(v, "", "  "), one word per line element.
MarshalIndent(v) ==
  LET m == MarshalFields(v)
  IN IF m.err # NoErr THEN m
     ELSE [err |-> NoErr, text |-> <<"{">> \o m.text \o <<"}">>]

(***************************************************************************)
(* What a handler has done so far.  A handler is a function of the request *)
(* and of the outcomes outs the remote API has returned to it so far: it   *)
(* either waits for the outcome of the last request it issued (Await) or   *)
(* has returned (Return).  remote lists the remote requests it has issued, *)
(* gotClient tells whether it has called TailscaleClient.GetClient.        *)
(***************************************************************************)
Return(result, remote, gotClient) ==
  [done |-> TRUE, result |-> result, err |-> NoErr, remote |-> remote,
   gotClient |-> gotClient]

Await(remote) ==
  [done |-> FALSE, result |-> NilResult, err |-> NoErr, remote |-> remote,
   gotClient |-> TRUE]

\* Faulty variant of InvalidArguments: the decode error is returned as the
\* handler's Go error, with no result.
InvalidArguments_Propagated(err) ==
  [done |-> TRUE, result |-> NilResult,
   err |-> Sprintf(<<"Invalid", "arguments:">>, err),
   remote |-> <<>>, gotClient |-> FALSE]

\* if err := request.BindArguments(&args); err != nil { return ... }
InvalidArguments(err) ==
  Return(NewToolResultError(Sprintf(<<"Invalid", "arguments:">>, err)),
         <<>>, FALSE)

\* Faulty variant of RemoteFailed: the remote error is returned as the
\* handler's Go error, with no result.
RemoteFailed_Propagated(failed, err, remote) ==
  [done |-> TRUE, result |-> NilResult, err |-> Sprintf(failed, err),
   remote |-> remote, gotClient |-> TRUE]

\* Faulty variant of RemoteFailed: a cancelled context is not reported as
\* a failure.
RemoteFailed_CancelAsText(failed, err, remote) ==
  IF err = <<"context", "canceled">>
  THEN Return(NewToolResultText(<<"cancelled">>), remote, TRUE)
  ELSE Return(NewToolResultError(Sprintf(failed, err)), remote, TRUE)

\* Faulty variant of RemoteFailed: the message omits the underlying error.
RemoteFailed_NoCause(failed, err, remote) ==
  Return(NewToolResultError(failed), remote, TRUE)

\* The return on a failed remote call:
\* return mcp.NewToolResultError(fmt.Sprintf("<failed>: %v", err)), nil
RemoteFailed(failed, err, remote) ==
  Return(NewToolResultError(Sprintf(failed, err)), remote, TRUE)

\* Faulty variant of CallThenMarshal: a failed remote call is tried once
\* more.
CallThenMarshal_Retry(req, outs, failed, marshalFailed) ==
  IF Len(outs) = 0 THEN Await(<<req>>)
  ELSE IF Len(outs) = 1 /\ outs[1].err # NoErr THEN Await(<<req, req>>)
  ELSE IF outs[Len(outs)].err # NoErr
  THEN RemoteFailed(failed, outs[Len(outs)].err, <<req, req>>)
  ELSE LET m == MarshalIndent(outs[Len(outs)].val)
       IN IF m.err # NoErr
          THEN Return(NewToolResultError(Sprintf(marshalFailed, m.err)),
                      [i \in 1..Len(outs) |-> req], TRUE)
          ELSE Return(NewToolResultText(m.text),
                      [i \in 1..Len(outs) |-> req], TRUE)

\* Faulty variant of CallThenMarshal: the error of json.MarshalIndent is
\* returned as the handler's Go error, with no result.
CallThenMarshal_MarshalPropagated(req, outs, failed, marshalFailed) ==
  IF Len(outs) = 0 THEN Await(<<req>>)
  ELSE IF outs[1].err # NoErr THEN RemoteFailed(failed, outs[1].err, <<req>>)
  ELSE LET m == MarshalIndent(outs[1].val)
       IN IF m.err # NoErr
          THEN [done |-> TRUE, result |-> NilResult, err |-> m.err,
                remote |-> <<req>>, gotClient |-> TRUE]
          ELSE Return(NewToolResultText(m.text), <<req>>, TRUE)

\* One remote call whose value is returned as indented JSON.
CallThenMarshal(req, outs, failed, marshalFailed) ==
  IF Len(outs) = 0 THEN Await(<<req>>)
  ELSE IF outs[1].err # NoErr THEN RemoteFailed(failed, outs[1].err, <<req>>)
  ELSE LET m == MarshalIndent(outs[1].val)
       IN IF m.err # NoErr
          THEN Return(NewToolResultError(Sprintf(marshalFailed, m.err)),
                      <<req>>, TRUE)
          ELSE Return(NewToolResultText(m.text), <<req>>, TRUE)

\* Faulty variant of CallThenConfirm: a failed remote call is tried once
\* more.
CallThenConfirm_Retry(req, outs, failed, confirmation) ==
  IF Len(outs) = 0 THEN Await(<<req>>)
  ELSE IF Len(outs) = 1 /\ outs[1].err # NoErr THEN Await(<<req, req>>)
  ELSE IF outs[Len(outs)].err # NoErr
  THEN RemoteFailed(failed, outs[Len(outs)].err, <<req, req>>)
  ELSE Return(NewToolResultText(confirmation),
              [i \in 1..Len(outs) |-> req], TRUE)

\* One remote call that returns only an error, confirmed by a fixed text.
CallThenConfirm(req, outs, failed, confirmation) ==
  IF Len(outs) = 0 THEN Await(<<req>>)
  ELSE IF outs[1].err # NoErr THEN RemoteFailed(failed, outs[1].err, <<req>>)
  ELSE Return(NewToolResultText(confirmation), <<req>>, TRUE)

(***************************************************************************)
(* DeviceTools (pkg/tools/devices.go)                                      *)
(***************************************************************************)
\* Faulty variant of ListDevices: the fields argument is not looked at.
ListDevices_AlwaysList(request, outs) ==
  LET struct == "fields" :> "string"
      b == IF request.arguments # NilArgs
           THEN BindArguments(request.arguments, struct)
           ELSE [err |-> NoErr, val |-> ZeroStruct(struct)]
  IN IF b.err # NoErr THEN InvalidArguments(b.err)
     ELSE CallThenMarshal([op |-> "Devices.List"], outs,
                          <<"Failed", "to", "list", "devices:">>,
                          <<"Failed", "to", "marshal", "devices:">>)

ListDevices(request, outs) ==
  LET struct == "fields" :> "string"
      b == IF request.arguments # NilArgs
           THEN BindArguments(request.arguments, struct)
           ELSE [err |-> NoErr, val |-> ZeroStruct(struct)]
      args == b.val
  IN IF b.err # NoErr THEN InvalidArguments(b.err)
     ELSE CallThenMarshal(
            IF args.fields = "all" THEN [op |-> "Devices.ListWithAllFields"]
            ELSE [op |-> "Devices.List"],
            outs, <<"Failed", "to", "list", "devices:">>,
            <<"Failed", "to", "marshal", "devices:">>)

\* Faulty variant of GetDevice: only the first field of the device is
\* serialized.
GetDevice_FirstFieldOnly(request, outs) ==
  LET b == BindArguments(request.arguments,
                         ("device_id" :> "string") @@ ("fields" :> "string"))
      args == b.val
  IN IF b.err # NoErr THEN InvalidArguments(b.err)
     ELSE CallThenMarshal(
            IF args.fields = "all"
            THEN [op |-> "Devices.GetWithAllFields", id |-> args.device_id]
            ELSE [op |-> "Devices.Get", id |-> args.device_id],
            IF Len(outs) > 0 /\ outs[1].err = NoErr
            THEN <<[outs[1] EXCEPT !.val = SubSeq(@, 1, 1)]>>
            ELSE outs,
            <<"Failed", "to", "get", "device:">>,
            <<"Failed", "to", "marshal", "device:">>)

GetDevice(request, outs) ==
  LET b == BindArguments(request.arguments,
                         ("device_id" :> "string") @@ ("fields" :> "string"))
      args == b.val
  IN IF b.err # NoErr THEN InvalidArguments(b.err)
     ELSE CallThenMarshal(
            IF args.fields = "all"
            THEN [op |-> "Devices.GetWithAllFields", id |-> args.device_id]
            ELSE [op |-> "Devices.Get", id |-> args.device_id],
            outs, <<"Failed", "to", "get", "device:">>,
            <<"Failed", "to", "marshal", "device:">>)

DeleteDevice(request, outs) ==
  LET b == BindArguments(request.arguments, "device_id" :> "string")
      args == b.val
  IN IF b.err # NoErr THEN InvalidArguments(b.err)
     ELSE CallThenConfirm(
            [op |-> "Devices.Delete", id |-> args.device_id], outs,
            <<"Failed", "to", "delete", "device:">>,
            <<"Device", args.device_id, "deleted", "successfully">>)

\* Faulty variant of AuthorizeDevice: the confirmation always says
\* "authorized".
AuthorizeDevice_AlwaysAuthorized(request, outs) ==
  LET b == BindArguments(request.arguments,
                         ("device_id" :> "string") @@ ("authorized" :> "bool"))
      args == b.val
  IN IF b.err # NoErr THEN InvalidArguments(b.err)
     ELSE CallThenConfirm(
            [op |-> "Devices.SetAuthorized", id |-> args.device_id,
             authorized |-> args.authorized], outs,
            <<"Failed", "to", "set", "device", "authorization:">>,
            <<"Device", args.device_id, "authorized", "successfully">>)

AuthorizeDevice(request, outs) ==
  LET b == BindArguments(request.arguments,
                         ("device_id" :> "string") @@ ("authorized" :> "bool"))
      args == b.val
      status == IF ~args.authorized THEN "deauthorized" ELSE "authorized"
  IN IF b.err # NoErr THEN InvalidArguments(b.err)
     ELSE CallThenConfirm(
            [op |-> "Devices.SetAuthorized", id |-> args.device_id,
             authorized |-> args.authorized], outs,
            <<"Failed", "to", "set", "device", "authorization:">>,
            <<"Device", args.device_id, status, "successfully">>)

SetDeviceName(request, outs) ==
  LET b == BindArguments(request.arguments,
                         ("device_id" :> "string") @@ ("name" :> "string"))
      args == b.val
  IN IF b.err # NoErr THEN InvalidArguments(b.err)
     ELSE CallThenConfirm(
            [op |-> "Devices.SetName", id |-> args.device_id,
             name |-> args.name], outs,
            <<"Failed", "to", "set", "device", "name:">>,
            <<"Device", args.device_id, "name", "set", "to", args.name>>)

SetDeviceTags(request, outs) ==
  LET b == BindArguments(request.arguments,
                         ("device_id" :> "string") @@ ("tags" :> "[]string"))
      args == b.val
  IN IF b.err # NoErr THEN InvalidArguments(b.err)
     ELSE CallThenConfirm(
            [op |-> "Devices.SetTags", id |-> args.device_id,
             tags |-> args.tags], outs,
            <<"Failed", "to", "set", "device", "tags:">>,
            <<"Device", args.device_id, "tags", "set", "to">>
              \o FmtSlice(args.tags))

\* Faulty variant of ExpireDevice: the key is sent with its expiry disabled.
ExpireDevice_ExpiryDisabled(request, outs) ==
  LET b == BindArguments(request.arguments, "device_id" :> "string")
      args == b.val
      deviceKey == [KeyExpiryDisabled |-> TRUE]
  IN IF b.err # NoErr THEN InvalidArguments(b.err)
     ELSE CallThenConfirm(
            [op |-> "Devices.SetKey", id |-> args.device_id,
             key |-> deviceKey], outs,
            <<"Failed", "to", "set", "device", "key", "expiry:">>,
            <<"Device", args.device_id, "expired", "successfully">>)

ExpireDevice(request, outs) ==
  LET b == BindArguments(request.arguments, "device_id" :> "string")
      args == b.val
      deviceKey == [KeyExpiryDisabled |-> FALSE]
  IN IF b.err # NoErr THEN InvalidArguments(b.err)
     ELSE CallThenConfirm(
            [op |-> "Devices.SetKey", id |-> args.device_id,
             key |-> deviceKey], outs,
            <<"Failed", "to", "set", "device", "key", "expiry:">>,
            <<"Device", args.device_id, "expired", "successfully">>)

ListDeviceRoutes(request, outs) ==
  LET b == BindArguments(request.arguments, "device_id" :> "string")
      args == b.val
  IN IF b.err # NoErr THEN InvalidArguments(b.err)
     ELSE CallThenMarshal(
            [op |-> "Devices.SubnetRoutes", id |-> args.device_id], outs,
            <<"Failed", "to", "list", "device", "routes:">>,
            <<"Failed", "to", "marshal", "routes:">>)

SetDeviceRoutes(request, outs) ==
  LET b == BindArguments(request.arguments,
                         ("device_id" :> "string") @@ ("routes" :> "[]string"))
      args == b.val
  IN IF b.err # NoErr THEN InvalidArguments(b.err)
     ELSE CallThenConfirm(
            [op |-> "Devices.SetSubnetRoutes", id |-> args.device_id,
             routes |-> args.routes], outs,
            <<"Failed", "to", "set", "device", "routes:">>,
            <<"Device", args.device_id, "routes", "set", "to">>
              \o FmtSlice(args.routes))

(***************************************************************************)
(* KeyTools                                                                *)
(***************************************************************************)
ListKeys(request, outs) ==
  CallThenMarshal([op |-> "Keys.List", all |-> FALSE], outs,
                  <<"Failed", "to", "list", "keys:">>,
                  <<"Failed", "to", "marshal", "keys:">>)

GetKey(request, outs) ==
  LET b == BindArguments(request.arguments, "key_id" :> "string")
      args == b.val
  IN IF b.err # NoErr THEN InvalidArguments(b.err)
     ELSE CallThenMarshal(
            [op |-> "Keys.Get", id |-> args.key_id], outs,
            <<"Failed", "to", "get", "key:">>,
            <<"Failed", "to", "marshal", "key:">>)

\* Faulty variant of CreateKey: the ephemeral and preauthorized arguments
\* are swapped in the capabilities.
CreateKey_Swapped(request, outs) ==
  LET struct == ("reusable" :> "bool") @@ ("ephemeral" :> "bool")
                @@ ("preauthorized" :> "bool") @@ ("description" :> "string")
                @@ ("tags" :> "[]string") @@ ("expiry_seconds" :> "int")
      b == IF request.arguments # NilArgs
           THEN BindArguments(request.arguments, struct)
           ELSE [err |-> NoErr, val |-> ZeroStruct(struct)]
      args == b.val
      createReq ==
        [Capabilities |->
           [Devices |-> [Create |-> [Reusable |-> args.reusable,
                                     Ephemeral |-> args.preauthorized,
                                     Tags |-> args.tags,
                                     Preauthorized |-> args.ephemeral]]],
         Description |-> args.description,
         ExpirySeconds |-> IF args.expiry_seconds > 0
                           THEN args.expiry_seconds ELSE 0]
  IN IF b.err # NoErr THEN InvalidArguments(b.err)
     ELSE CallThenMarshal(
            [op |-> "Keys.Create", req |-> createReq], outs,
            <<"Failed", "to", "create", "key:">>,
            <<"Failed", "to", "marshal", "key:">>)

CreateKey(request, outs) ==
  LET struct == ("reusable" :> "bool") @@ ("ephemeral" :> "bool")
                @@ ("preauthorized" :> "bool") @@ ("description" :> "string")
                @@ ("tags" :> "[]string") @@ ("expiry_seconds" :> "int")
      b == IF request.arguments # NilArgs
           THEN BindArguments(request.arguments, struct)
           ELSE [err |-> NoErr, val |-> ZeroStruct(struct)]
      args == b.val
      createReq ==
        [Capabilities |->
           [Devices |-> [Create |-> [Reusable |-> args.reusable,
                                     Ephemeral |-> args.ephemeral,
                                     Tags |-> args.tags,
                                     Preauthorized |-> args.preauthorized]]],
         Description |-> args.description,
         ExpirySeconds |-> IF args.expiry_seconds > 0
                           THEN args.expiry_seconds ELSE 0]
  IN IF b.err # NoErr THEN InvalidArguments(b.err)
     ELSE CallThenMarshal(
            [op |-> "Keys.Create", req |-> createReq], outs,
            <<"Failed", "to", "create", "key:">>,
            <<"Failed", "to", "marshal", "key:">>)

DeleteKey(request, outs) ==
  LET b == BindArguments(request.arguments, "key_id" :> "string")
      args == b.val
  IN IF b.err # NoErr THEN InvalidArguments(b.err)
     ELSE CallThenConfirm(
            [op |-> "Keys.Delete", id |-> args.key_id], outs,
            <<"Failed", "to", "delete", "key:">>,
            <<"Key", args.key_id, "deleted", "successfully">>)

(***************************************************************************)
(* UserTools                                                               *)
(***************************************************************************)
ListUsers(request, outs) ==
  CallThenMarshal([op |-> "Users.List"], outs,
                  <<"Failed", "to", "list", "users:">>,
                  <<"Failed", "to", "marshal", "users:">>)

GetUser(request, outs) ==
  LET b == BindArguments(request.arguments, "user_id" :> "string")
      args == b.val
  IN IF b.err # NoErr THEN InvalidArguments(b.err)
     ELSE CallThenMarshal(
            [op |-> "Users.Get", id |-> args.user_id], outs,
            <<"Failed", "to", "get", "user:">>,
            <<"Failed", "to", "marshal", "user:">>)

\* Faulty variant of NotAvailable: the arguments are not bound.
NotAvailable_Unconditional(request, what) ==
  Return(NewToolResultError(
           <<"User", what, "functionality", "is", "not", "available",
             "in", "the", "current", "API">>),
         <<>>, FALSE)

\* The four user-lifecycle handlers: bind, then a fixed error.
NotAvailable(request, what) ==
  LET b == BindArguments(request.arguments, "user_id" :> "string")
  IN IF b.err # NoErr THEN InvalidArguments(b.err)
     ELSE Return(NewToolResultError(
                   <<"User", what, "functionality", "is", "not", "available",
                     "in", "the", "current", "API">>),
                 <<>>, FALSE)

\* Faulty variant of ApproveUser: the approval is sent to the remote API.
ApproveUser_Remote(request, outs) ==
  LET b == BindArguments(request.arguments, "user_id" :> "string")
  IN IF b.err # NoErr THEN InvalidArguments(b.err)
     ELSE CallThenConfirm(
            [op |-> "Users.Approve", id |-> b.val.user_id], outs,
            <<"Failed", "to", "approve", "user:">>,
            <<"User", b.val.user_id, "approved", "successfully">>)

ApproveUser(request, outs) == NotAvailable(request, "approval")

SuspendUser(request, outs) == NotAvailable(request, "suspension")

RestoreUser(request, outs) == NotAvailable(request, "restoration")

DeleteUser(request, outs) == NotAvailable(request, "deletion")

GetContacts(request, outs) ==
  CallThenMarshal([op |-> "Contacts.Get"], outs,
                  <<"Failed", "to", "get", "contacts:">>,
                  <<"Failed", "to", "marshal", "contacts:">>)

UpdateContact(request, outs) ==
  LET b == BindArguments(request.arguments,
                         ("contact_type" :> "string") @@ ("email" :> "string"))
      args == b.val
      updateReq == [Email |-> Ptr(args.email)]
  IN IF b.err # NoErr THEN InvalidArguments(b.err)
     ELSE IF args.contact_type \notin {"account", "support", "security"}
     THEN Return(NewToolResultError(
                   <<"Invalid", "contact", "type:", args.contact_type>>),
                 <<>>, FALSE)
     ELSE CallThenConfirm(
            [op |-> "Contacts.Update", contactType |-> args.contact_type,
             req |-> updateReq], outs,
            <<"Failed", "to", "update", "contact:">>,
            <<"Contact", args.contact_type, "updated", "to", args.email>>)

(***************************************************************************)
(* DNSTools                                                                *)
(***************************************************************************)
GetNameservers(request, outs) ==
  CallThenMarshal([op |-> "DNS.Nameservers"], outs,
                  <<"Failed", "to", "get", "nameservers:">>,
                  <<"Failed", "to", "marshal", "nameservers:">>)

SetNameservers(request, outs) ==
  LET b == BindArguments(request.arguments, "nameservers" :> "[]string")
      args == b.val
  IN IF b.err # NoErr THEN InvalidArguments(b.err)
     ELSE CallThenConfirm(
            [op |-> "DNS.SetNameservers", nameservers |-> args.nameservers],
            outs, <<"Failed", "to", "set", "nameservers:">>,
            <<"DNS", "nameservers", "set", "to:">>
              \o FmtSlice(args.nameservers))

GetPreferences(request, outs) ==
  CallThenMarshal([op |-> "DNS.Preferences"], outs,
                  <<"Failed", "to", "get", "DNS", "preferences:">>,
                  <<"Failed", "to", "marshal", "preferences:">>)

SetPreferences(request, outs) ==
  LET b == BindArguments(request.arguments, "magic_dns" :> "bool")
      args == b.val
      preferences == [MagicDNS |-> args.magic_dns]
  IN IF b.err # NoErr THEN InvalidArguments(b.err)
     ELSE CallThenConfirm(
            [op |-> "DNS.SetPreferences", preferences |-> preferences], outs,
            <<"Failed", "to", "set", "DNS", "preferences:">>,
            <<"DNS", "preferences", "updated:",
              "MagicDNS=" \o FmtBool(args.magic_dns)>>)

GetSearchPaths(request, outs) ==
  CallThenMarshal([op |-> "DNS.SearchPaths"], outs,
                  <<"Failed", "to", "get", "search", "paths:">>,
                  <<"Failed", "to", "marshal", "search", "paths:">>)

SetSearchPaths(request, outs) ==
  LET b == BindArguments(request.arguments, "search_paths" :> "[]string")
      args == b.val
  IN IF b.err # NoErr THEN InvalidArguments(b.err)
     ELSE CallThenConfirm(
            [op |-> "DNS.SetSearchPaths", searchPaths |-> args.search_paths],
            outs, <<"Failed", "to", "set", "search", "paths:">>,
            <<"DNS", "search", "paths", "set", "to:">>
              \o FmtSlice(args.search_paths))

\* The policy is returned as the remote API's HuJSON text, not re-encoded.
GetPolicy(request, outs) ==
  LET req == [op |-> "PolicyFile.Raw"]
  IN IF Len(outs) = 0 THEN Await(<<req>>)
     ELSE IF outs[1].err # NoErr
     THEN RemoteFailed(<<"Failed", "to", "get", "policy:">>, outs[1].err,
                       <<req>>)
     ELSE Return(NewToolResultText(outs[1].val.HuJSON), <<req>>, TRUE)

\* Faulty variant of SetPolicy: the write carries the ETag of the policy
\* the server started with, so the remote API applies it only to that
\* policy.
SetPolicy_IfMatch(request, outs) ==
  LET b == BindArguments(request.arguments, "policy" :> "string")
      args == b.val
  IN IF b.err # NoErr THEN InvalidArguments(b.err)
     ELSE CallThenConfirm(
            [op |-> "PolicyFile.Set", policy |-> args.policy,
             etag |-> "etag-of-p-0"],
            outs, <<"Failed", "to", "set", "policy:">>,
            <<"Policy", "file", "updated", "successfully">>)

SetPolicy(request, outs) ==
  LET b == BindArguments(request.arguments, "policy" :> "string")
      args == b.val
  IN IF b.err # NoErr THEN InvalidArguments(b.err)
     ELSE CallThenConfirm(
            [op |-> "PolicyFile.Set", policy |-> args.policy, etag |-> ""],
            outs, <<"Failed", "to", "set", "policy:">>,
            <<"Policy", "file", "updated", "successfully">>)

ValidatePolicy(request, outs) ==
  LET b == BindArguments(request.arguments, "policy" :> "string")
      args == b.val
  IN IF b.err # NoErr THEN InvalidArguments(b.err)
     ELSE CallThenConfirm(
            [op |-> "PolicyFile.Validate", policy |-> args.policy], outs,
            <<"Policy", "validation", "failed:">>,
            <<"Policy", "validation", "passed">>)

(***************************************************************************)
(* AdditionalTools (pkg/tools/additional.go)                               *)
(***************************************************************************)
ListWebhooks(request, outs) ==
  CallThenMarshal([op |-> "Webhooks.List"], outs,
                  <<"Failed", "to", "list", "webhooks:">>,
                  <<"Failed", "to", "marshal", "webhooks:">>)

\* Faulty variant of CreateWebhook: the error of BindArguments is ignored
\* and the handler goes on with what was decoded.
CreateWebhook_BindUnchecked(request, outs) ==
  LET b == BindArguments(request.arguments,
                         ("endpoint_url" :> "string")
                         @@ ("subscriptions" :> "[]string"))
      args == b.val
      createReq == [EndpointURL |-> args.endpoint_url,
                    Subscriptions |-> args.subscriptions]
  IN CallThenMarshal(
       [op |-> "Webhooks.Create", req |-> createReq], outs,
       <<"Failed", "to", "create", "webhook:">>,
       <<"Failed", "to", "marshal", "webhook:">>)

CreateWebhook(request, outs) ==
  LET b == BindArguments(request.arguments,
                         ("endpoint_url" :> "string")
                         @@ ("subscriptions" :> "[]string"))
      args == b.val
      createReq == [EndpointURL |-> args.endpoint_url,
                    Subscriptions |-> args.subscriptions]
  IN IF b.err # NoErr THEN InvalidArguments(b.err)
     ELSE CallThenMarshal(
            [op |-> "Webhooks.Create", req |-> createReq], outs,
            <<"Failed", "to", "create", "webhook:">>,
            <<"Failed", "to", "marshal", "webhook:">>)

GetWebhook(request, outs) ==
  LET b == BindArguments(request.arguments, "endpoint_id" :> "string")
      args == b.val
  IN IF b.err # NoErr THEN InvalidArguments(b.err)
     ELSE CallThenMarshal(
            [op |-> "Webhooks.Get", id |-> args.endpoint_id], outs,
            <<"Failed", "to", "get", "webhook:">>,
            <<"Failed", "to", "marshal", "webhook:">>)

DeleteWebhook(request, outs) ==
  LET b == BindArguments(request.arguments, "endpoint_id" :> "string")
      args == b.val
  IN IF b.err # NoErr THEN InvalidArguments(b.err)
     ELSE CallThenConfirm(
            [op |-> "Webhooks.Delete", id |-> args.endpoint_id], outs,
            <<"Failed", "to", "delete", "webhook:">>,
            <<"Webhook", args.endpoint_id, "deleted", "successfully">>)

GetConfigurationLogs(request, outs) ==
  CallThenMarshal(
    [op |-> "Logging.LogstreamConfiguration", logType |-> "configuration"],
    outs, <<"Failed", "to", "get", "configuration", "logs:">>,
    <<"Failed", "to", "marshal", "logs:">>)

GetNetworkLogs(request, outs) ==
  CallThenMarshal(
    [op |-> "Logging.LogstreamConfiguration", logType |-> "network"],
    outs, <<"Failed", "to", "get", "network", "logs:">>,
    <<"Failed", "to", "marshal", "logs:">>)

ListPostureIntegrations(request, outs) ==
  CallThenMarshal([op |-> "DevicePosture.ListIntegrations"], outs,
                  <<"Failed", "to", "list", "posture", "integrations:">>,
                  <<"Failed", "to", "marshal", "integrations:">>)

CreatePostureIntegration(request, outs) ==
  LET b == BindArguments(request.arguments,
                         ("provider" :> "string") @@ ("client_id" :> "string")
                         @@ ("client_secret" :> "string")
                         @@ ("tenant_id" :> "string"))
      args == b.val
      createReq == [Provider |-> args.provider, ClientID |-> args.client_id,
                    ClientSecret |-> args.client_secret,
                    TenantID |-> args.tenant_id]
  IN IF b.err # NoErr THEN InvalidArguments(b.err)
     ELSE CallThenMarshal(
            [op |-> "DevicePosture.CreateIntegration", req |-> createReq],
            outs, <<"Failed", "to", "create", "posture", "integration:">>,
            <<"Failed", "to", "marshal", "integration:">>)

GetPostureIntegration(request, outs) ==
  LET b == BindArguments(request.arguments, "id" :> "string")
      args == b.val
  IN IF b.err # NoErr THEN InvalidArguments(b.err)
     ELSE CallThenMarshal(
            [op |-> "DevicePosture.GetIntegration", id |-> args.id], outs,
            <<"Failed", "to", "get", "posture", "integration:">>,
            <<"Failed", "to", "marshal", "integration:">>)

DeletePostureIntegration(request, outs) ==
  LET b == BindArguments(request.arguments, "id" :> "string")
      args == b.val
  IN IF b.err # NoErr THEN InvalidArguments(b.err)
     ELSE CallThenConfirm(
            [op |-> "DevicePosture.DeleteIntegration", id |-> args.id], outs,
            <<"Failed", "to", "delete", "posture", "integration:">>,
            <<"Posture", "integration", args.id, "deleted", "successfully">>)

GetTailnetSettings(request, outs) ==
  CallThenMarshal([op |-> "TailnetSettings.Get"], outs,
                  <<"Failed", "to", "get", "tailnet", "settings:">>,
                  <<"Failed", "to", "marshal", "settings:">>)

\* The eight optional settings, each a pointer that is nil when the call
\* does not supply it.
SettingsStruct ==
  ("devices_approval_on" :> "*bool") @@ ("devices_auto_updates_on" :> "*bool")
  @@ ("devices_key_duration_days" :> "*int") @@ ("users_approval_on" :> "*bool")
  @@ ("users_role_allowed_to_join_external_tailnets" :> "*string")
  @@ ("network_flow_logging_on" :> "*bool") @@ ("regional_routing_on" :> "*bool")
  @@ ("posture_identity_collection_on" :> "*bool")

\* Faulty variant of UpdateTailnetSettings: the failure of the read that
\* follows the update is not reported; the update is confirmed instead.
UpdateTailnetSettings_ReadFailureHidden(request, outs) ==
  LET b == BindArguments(request.arguments, SettingsStruct)
      args == b.val
      updateReq ==
        [DevicesApprovalOn |-> args.devices_approval_on,
         DevicesAutoUpdatesOn |-> args.devices_auto_updates_on,
         DevicesKeyDurationDays |-> args.devices_key_duration_days,
         UsersApprovalOn |-> args.users_approval_on,
         UsersRoleAllowedToJoinExternalTailnets |->
           args.users_role_allowed_to_join_external_tailnets,
         NetworkFlowLoggingOn |-> args.network_flow_logging_on,
         RegionalRoutingOn |-> args.regional_routing_on,
         PostureIdentityCollectionOn |-> args.posture_identity_collection_on]
      update == [op |-> "TailnetSettings.Update", req |-> updateReq]
      get == [op |-> "TailnetSettings.Get"]
  IN IF b.err # NoErr THEN InvalidArguments(b.err)
     ELSE IF Len(outs) = 0 THEN Await(<<update>>)
     ELSE IF outs[1].err # NoErr
     THEN RemoteFailed(<<"Failed", "to", "update", "tailnet", "settings:">>,
                       outs[1].err, <<update>>)
     ELSE IF Len(outs) = 1 THEN Await(<<update, get>>)
     ELSE IF outs[2].err # NoErr
     THEN Return(NewToolResultText(<<"Tailnet", "settings", "updated">>),
                 <<update, get>>, TRUE)
     ELSE LET m == MarshalIndent(outs[2].val)
          IN IF m.err # NoErr
             THEN Return(NewToolResultError(
                           Sprintf(<<"Failed", "to", "marshal", "settings:">>,
                                   m.err)),
                         <<update, get>>, TRUE)
             ELSE Return(NewToolResultText(m.text), <<update, get>>, TRUE)

\* Faulty variant of UpdateTailnetSettings: an omitted devices_approval_on
\* is sent as false.
UpdateTailnetSettings_ZeroFill(request, outs) ==
  LET b == BindArguments(request.arguments, SettingsStruct)
      args == b.val
      updateReq ==
        [DevicesApprovalOn |-> IF args.devices_approval_on = NilPtr
                               THEN Ptr(FALSE)
                               ELSE args.devices_approval_on,
         DevicesAutoUpdatesOn |-> args.devices_auto_updates_on,
         DevicesKeyDurationDays |-> args.devices_key_duration_days,
         UsersApprovalOn |-> args.users_approval_on,
         UsersRoleAllowedToJoinExternalTailnets |->
           args.users_role_allowed_to_join_external_tailnets,
         NetworkFlowLoggingOn |-> args.network_flow_logging_on,
         RegionalRoutingOn |-> args.regional_routing_on,
         PostureIdentityCollectionOn |-> args.posture_identity_collection_on]
      update == [op |-> "TailnetSettings.Update", req |-> updateReq]
      get == [op |-> "TailnetSettings.Get"]
  IN IF b.err # NoErr THEN InvalidArguments(b.err)
     ELSE IF Len(outs) = 0 THEN Await(<<update>>)
     ELSE IF outs[1].err # NoErr
     THEN RemoteFailed(<<"Failed", "to", "update", "tailnet", "settings:">>,
                       outs[1].err, <<update>>)
     ELSE IF Len(outs) = 1 THEN Await(<<update, get>>)
     ELSE IF outs[2].err # NoErr
     THEN RemoteFailed(<<"Failed", "to", "get", "updated", "tailnet",
                         "settings:">>, outs[2].err, <<update, get>>)
     ELSE LET m == MarshalIndent(outs[2].val)
          IN IF m.err # NoErr
             THEN Return(NewToolResultError(
                           Sprintf(<<"Failed", "to", "marshal", "settings:">>,
                                   m.err)),
                         <<update, get>>, TRUE)
             ELSE Return(NewToolResultText(m.text), <<update, get>>, TRUE)

\* The update is sent first; after it has succeeded the settings are read
\* back and returned.
UpdateTailnetSettings(request, outs) ==
  LET b == BindArguments(request.arguments, SettingsStruct)
      args == b.val
      updateReq ==
        [DevicesApprovalOn |-> args.devices_approval_on,
         DevicesAutoUpdatesOn |-> args.devices_auto_updates_on,
         DevicesKeyDurationDays |-> args.devices_key_duration_days,
         UsersApprovalOn |-> args.users_approval_on,
         UsersRoleAllowedToJoinExternalTailnets |->
           args.users_role_allowed_to_join_external_tailnets,
         NetworkFlowLoggingOn |-> args.network_flow_logging_on,
         RegionalRoutingOn |-> args.regional_routing_on,
         PostureIdentityCollectionOn |-> args.posture_identity_collection_on]
      update == [op |-> "TailnetSettings.Update", req |-> updateReq]
      get == [op |-> "TailnetSettings.Get"]
  IN IF b.err # NoErr THEN InvalidArguments(b.err)
     ELSE IF Len(outs) = 0 THEN Await(<<update>>)
     ELSE IF outs[1].err # NoErr
     THEN RemoteFailed(<<"Failed", "to", "update", "tailnet", "settings:">>,
                       outs[1].err, <<update>>)
     ELSE IF Len(outs) = 1 THEN Await(<<update, get>>)
     ELSE IF outs[2].err # NoErr
     THEN RemoteFailed(<<"Failed", "to", "get", "updated", "tailnet",
                         "settings:">>, outs[2].err, <<update, get>>)
     ELSE LET m == MarshalIndent(outs[2].val)
          IN IF m.err # NoErr
             THEN Return(NewToolResultError(
                           Sprintf(<<"Failed", "to", "marshal", "settings:">>,
                                   m.err)),
                         <<update, get>>, TRUE)
             ELSE Return(NewToolResultText(m.text), <<update, get>>, TRUE)

(***************************************************************************)
(* The tool catalogs: what each RegisterTools passes to AddTool, in order. *)
(* A tool is its name, its declared parameters and the handler bound to    *)
(* it.  A parameter is declared by mcp.WithString, WithBoolean, WithNumber *)
(* or WithArray, with mcp.Required() and mcp.Enum(...) where present.      *)
(***************************************************************************)
Param(name, type, required, enum) ==
  [name |-> name, type |-> type, required |-> required, enum |-> enum]

Req(name, type) == Param(name, type, TRUE, {})

Opt(name, type) == Param(name, type, FALSE, {})

Tool(name, params, handler) ==
  [name |-> name, params |-> params, handler |-> handler]

DeviceTools_RegisterTools ==
  << Tool("tailscale_devices_list",
          <<Param("fields", "string", FALSE, {"all", "default"})>>,
          "ListDevices"),
     Tool("tailscale_device_get",
          <<Req("device_id", "string"),
            Param("fields", "string", FALSE, {"all", "default"})>>,
          "GetDevice"),
     Tool("tailscale_device_delete", <<Req("device_id", "string")>>,
          "DeleteDevice"),
     Tool("tailscale_device_authorize",
          <<Req("device_id", "string"), Req("authorized", "boolean")>>,
          "AuthorizeDevice"),
     Tool("tailscale_device_set_name",
          <<Req("device_id", "string"), Req("name", "string")>>,
          "SetDeviceName"),
     Tool("tailscale_device_set_tags",
          <<Req("device_id", "string"), Req("tags", "array")>>,
          "SetDeviceTags"),
     Tool("tailscale_device_expire", <<Req("device_id", "string")>>,
          "ExpireDevice"),
     Tool("tailscale_device_routes_list", <<Req("device_id", "string")>>,
          "ListDeviceRoutes"),
     Tool("tailscale_device_routes_set",
          <<Req("device_id", "string"), Req("routes", "array")>>,
          "SetDeviceRoutes") >>

\* Faulty variant of KeyTools_RegisterTools: the delete tool was registered
\* under the name of the device delete tool.
KeyTools_RegisterTools_Dup ==
  << Tool("tailscale_keys_list", <<>>, "ListKeys"),
     Tool("tailscale_key_get", <<Req("key_id", "string")>>, "GetKey"),
     Tool("tailscale_key_create",
          <<Opt("reusable", "boolean"), Opt("ephemeral", "boolean"),
            Opt("preauthorized", "boolean"), Opt("description", "string"),
            Opt("tags", "array"), Opt("expiry_seconds", "number")>>,
          "CreateKey"),
     Tool("tailscale_device_delete", <<Req("key_id", "string")>>, "DeleteKey") >>

KeyTools_RegisterTools ==
  << Tool("tailscale_keys_list", <<>>, "ListKeys"),
     Tool("tailscale_key_get", <<Req("key_id", "string")>>, "GetKey"),
     Tool("tailscale_key_create",
          <<Opt("reusable", "boolean"), Opt("ephemeral", "boolean"),
            Opt("preauthorized", "boolean"), Opt("description", "string"),
            Opt("tags", "array"), Opt("expiry_seconds", "number")>>,
          "CreateKey"),
     Tool("tailscale_key_delete", <<Req("key_id", "string")>>, "DeleteKey") >>

UserTools_RegisterTools ==
  << Tool("tailscale_users_list", <<>>, "ListUsers"),
     Tool("tailscale_user_get", <<Req("user_id", "string")>>, "GetUser"),
     Tool("tailscale_user_approve", <<Req("user_id", "string")>>,
          "ApproveUser"),
     Tool("tailscale_user_suspend", <<Req("user_id", "string")>>,
          "SuspendUser"),
     Tool("tailscale_user_restore", <<Req("user_id", "string")>>,
          "RestoreUser"),
     Tool("tailscale_user_delete", <<Req("user_id", "string")>>,
          "DeleteUser"),
     Tool("tailscale_contacts_get", <<>>, "GetContacts"),
     Tool("tailscale_contact_update",
          <<Param("contact_type", "string", TRUE,
                  {"account", "support", "security"}),
            Req("email", "string")>>,
          "UpdateContact") >>

DNSTools_RegisterTools ==
  << Tool("tailscale_dns_nameservers_get", <<>>, "GetNameservers"),
     Tool("tailscale_dns_nameservers_set", <<Req("nameservers", "array")>>,
          "SetNameservers"),
     Tool("tailscale_dns_preferences_get", <<>>, "GetPreferences"),
     Tool("tailscale_dns_preferences_set", <<Req("magic_dns", "boolean")>>,
          "SetPreferences"),
     Tool("tailscale_dns_searchpaths_get", <<>>, "GetSearchPaths"),
     Tool("tailscale_dns_searchpaths_set", <<Req("search_paths", "array")>>,
          "SetSearchPaths"),
     Tool("tailscale_policy_get", <<>>, "GetPolicy"),
     Tool("tailscale_policy_set", <<Req("policy", "string")>>, "SetPolicy"),
     Tool("tailscale_policy_validate", <<Req("policy", "string")>>,
          "ValidatePolicy") >>

AdditionalTools_RegisterTools ==
  << Tool("tailscale_webhooks_list", <<>>, "ListWebhooks"),
     Tool("tailscale_webhook_create",
          <<Req("endpoint_url", "string"), Req("subscriptions", "array")>>,
          "CreateWebhook"),
     Tool("tailscale_webhook_get", <<Req("endpoint_id", "string")>>,
          "GetWebhook"),
     Tool("tailscale_webhook_delete", <<Req("endpoint_id", "string")>>,
          "DeleteWebhook"),
     Tool("tailscale_logging_configuration_get", <<>>,
          "GetConfigurationLogs"),
     Tool("tailscale_logging_network_get", <<>>, "GetNetworkLogs"),
     Tool("tailscale_device_posture_integrations_list", <<>>,
          "ListPostureIntegrations"),
     Tool("tailscale_device_posture_integration_create",
          <<Req("provider", "string"), Req("client_id", "string"),
            Req("client_secret", "string"), Opt("tenant_id", "string")>>,
          "CreatePostureIntegration"),
     Tool("tailscale_device_posture_integration_get", <<Req("id", "string")>>,
          "GetPostureIntegration"),
     Tool("tailscale_device_posture_integration_delete",
          <<Req("id", "string")>>, "DeletePostureIntegration"),
     Tool("tailscale_tailnet_settings_get", <<>>, "GetTailnetSettings"),
     Tool("tailscale_tailnet_settings_update",
          <<Opt("devices_approval_on", "boolean"),
            Opt("devices_auto_updates_on", "boolean"),
            Opt("devices_key_duration_days", "number"),
            Opt("users_approval_on", "boolean"),
            Opt("users_role_allowed_to_join_external_tailnets", "string"),
            Opt("network_flow_logging_on", "boolean"),
            Opt("regional_routing_on", "boolean"),
            Opt("posture_identity_collection_on", "boolean")>>,
          "UpdateTailnetSettings") >>

\* MCPServer.AddTool: the server keeps its tools in a map keyed by name.
RECURSIVE AddTools(_, _)
AddTools(tools, catalog) ==
  IF catalog = <<>> THEN tools
  ELSE LET t == Head(catalog)
       IN AddTools([n \in DOMAIN tools \cup {t.name} |->
                      IF n = t.name THEN t ELSE tools[n]],
                   Tail(catalog))

\* handlers.Handler.RegisterTools: the five catalogs, in this order.
Handler_RegisterTools(tools) ==
  AddTools(AddTools(AddTools(AddTools(AddTools(tools,
    DeviceTools_RegisterTools), KeyTools_RegisterTools),
    UserTools_RegisterTools), DNSTools_RegisterTools),
    AdditionalTools_RegisterTools)

\* The server calls the handler that AddTool bound to the tool's name.
Invoke(handler, request, outs) ==
  CASE handler = "ListDevices" -> ListDevices(request, outs)
    [] handler = "GetDevice" -> GetDevice(request, outs)
    [] handler = "DeleteDevice" -> DeleteDevice(request, outs)
    [] handler = "AuthorizeDevice" -> AuthorizeDevice(request, outs)
    [] handler = "SetDeviceName" -> SetDeviceName(request, outs)
    [] handler = "SetDeviceTags" -> SetDeviceTags(request, outs)
    [] handler = "ExpireDevice" -> ExpireDevice(request, outs)
    [] handler = "ListDeviceRoutes" -> ListDeviceRoutes(request, outs)
    [] handler = "SetDeviceRoutes" -> SetDeviceRoutes(request, outs)
    [] handler = "ListKeys" -> ListKeys(request, outs)
    [] handler = "GetKey" -> GetKey(request, outs)
    [] handler = "CreateKey" -> CreateKey(request, outs)
    [] handler = "DeleteKey" -> DeleteKey(request, outs)
    [] handler = "ListUsers" -> ListUsers(request, outs)
    [] handler = "GetUser" -> GetUser(request, outs)
    [] handler = "ApproveUser" -> ApproveUser(request, outs)
    [] handler = "SuspendUser" -> SuspendUser(request, outs)
    [] handler = "RestoreUser" -> RestoreUser(request, outs)
    [] handler = "DeleteUser" -> DeleteUser(request, outs)
    [] handler = "GetContacts" -> GetContacts(request, outs)
    [] handler = "UpdateContact" -> UpdateContact(request, outs)
    [] handler = "GetNameservers" -> GetNameservers(request, outs)
    [] handler = "SetNameservers" -> SetNameservers(request, outs)
    [] handler = "GetPreferences" -> GetPreferences(request, outs)
    [] handler = "SetPreferences" -> SetPreferences(request, outs)
    [] handler = "GetSearchPaths" -> GetSearchPaths(request, outs)
    [] handler = "SetSearchPaths" -> SetSearchPaths(request, outs)
    [] handler = "GetPolicy" -> GetPolicy(request, outs)
    [] handler = "SetPolicy" -> SetPolicy(request, outs)
    [] handler = "ValidatePolicy" -> ValidatePolicy(request, outs)
    [] handler = "ListWebhooks" -> ListWebhooks(request, outs)
    [] handler = "CreateWebhook" -> CreateWebhook(request, outs)
    [] handler = "GetWebhook" -> GetWebhook(request, outs)
    [] handler = "DeleteWebhook" -> DeleteWebhook(request, outs)
    [] handler = "GetConfigurationLogs" -> GetConfigurationLogs(request, outs)
    [] handler = "GetNetworkLogs" -> GetNetworkLogs(request, outs)
    [] handler = "ListPostureIntegrations" ->
         ListPostureIntegrations(request, outs)
    [] handler = "CreatePostureIntegration" ->
         CreatePostureIntegration(request, outs)
    [] handler = "GetPostureIntegration" ->
         GetPostureIntegration(request, outs)
    [] handler = "DeletePostureIntegration" ->
         DeletePostureIntegration(request, outs)
    [] handler = "GetTailnetSettings" -> GetTailnetSettings(request, outs)
    [] handler = "UpdateTailnetSettings" ->
         UpdateTailnetSettings(request, outs)

(***************************************************************************)
(* config.LoadConfig                                                       *)
(***************************************************************************)
\* Faulty variant of LoadConfig: OAuth is chosen when either OAuth variable
\* is set.
LoadConfig_EitherOAuth(e) ==
  LET tailnet == IF e.TAILSCALE_TAILNET = "" THEN "-" ELSE e.TAILSCALE_TAILNET
      useOAuth == e.TAILSCALE_CLIENT_ID # "" \/ e.TAILSCALE_CLIENT_SECRET # ""
  IN IF ~useOAuth /\ e.TAILSCALE_API_KEY = ""
     THEN [cfg |-> NilConfig,
           err |-> <<"either", "TAILSCALE_API_KEY", "or", "both",
                     "TAILSCALE_CLIENT_ID", "and", "TAILSCALE_CLIENT_SECRET",
                     "must", "be", "set">>]
     ELSE [cfg |-> [TailscaleAPIKey |-> e.TAILSCALE_API_KEY,
                    TailscaleTailnet |-> tailnet,
                    TailscaleClientID |-> e.TAILSCALE_CLIENT_ID,
                    TailscaleClientSecret |-> e.TAILSCALE_CLIENT_SECRET,
                    UseOAuth |-> useOAuth],
           err |-> NoErr]

LoadConfig(e) ==
  LET tailnet == IF e.TAILSCALE_TAILNET = "" THEN "-" ELSE e.TAILSCALE_TAILNET
      useOAuth == e.TAILSCALE_CLIENT_ID # "" /\ e.TAILSCALE_CLIENT_SECRET # ""
  IN IF ~useOAuth /\ e.TAILSCALE_API_KEY = ""
     THEN [cfg |-> NilConfig,
           err |-> <<"either", "TAILSCALE_API_KEY", "or", "both",
                     "TAILSCALE_CLIENT_ID", "and", "TAILSCALE_CLIENT_SECRET",
                     "must", "be", "set">>]
     ELSE [cfg |-> [TailscaleAPIKey |-> e.TAILSCALE_API_KEY,
                    TailscaleTailnet |-> tailnet,
                    TailscaleClientID |-> e.TAILSCALE_CLIENT_ID,
                    TailscaleClientSecret |-> e.TAILSCALE_CLIENT_SECRET,
                    UseOAuth |-> useOAuth],
           err |-> NoErr]

(***************************************************************************)
(* client.TailscaleClient                                                  *)
(***************************************************************************)
NilHTTP == [nil |-> TRUE]

\* tailscale.OAuthConfig.HTTPClient(): the transport that acquires tokens.
OAuthHTTPClient(oauthConfig) == [nil |-> FALSE, oauth |-> oauthConfig]

\* Faulty variant of NewTailscaleClient: the API key is set in both modes.
NewTailscaleClient_KeyAlways(c) ==
  LET client == [Tailnet |-> c.TailscaleTailnet,
                 APIKey |-> c.TailscaleAPIKey, HTTP |-> NilHTTP]
  IN [tc |-> [client |->
                IF c.UseOAuth
                THEN [client EXCEPT !.HTTP =
                        OAuthHTTPClient([ClientID |-> c.TailscaleClientID,
                                         ClientSecret |-> c.TailscaleClientSecret,
                                         Scopes |-> <<"all:read", "all:write">>])]
                ELSE client],
      err |-> NoErr]

NewTailscaleClient(c) ==
  LET client == [Tailnet |-> c.TailscaleTailnet, APIKey |-> "", HTTP |-> NilHTTP]
  IN [tc |-> [client |->
                IF c.UseOAuth
                THEN [client EXCEPT !.HTTP =
                        OAuthHTTPClient([ClientID |-> c.TailscaleClientID,
                                         ClientSecret |-> c.TailscaleClientSecret,
                                         Scopes |-> <<"all:read", "all:write">>])]
                ELSE [client EXCEPT !.APIKey = c.TailscaleAPIKey]],
      err |-> NoErr]

\* sync.RWMutex: the goroutines holding the read lock and the goroutine
\* holding the write lock.  RLock waits while the write lock is held, Lock
\* waits while any lock is held; ok tells whether the caller gets the lock
\* now, m is the mutex once it has it.
UnlockedMutex == [readers |-> {}, writer |-> {}]

RLock(m, d) == [ok |-> m.writer = {}, m |-> [m EXCEPT !.readers = @ \cup {d}]]

RUnlock(m, d) == [m EXCEPT !.readers = @ \ {d}]

Lock(m, d) ==
  [ok |-> m.writer = {} /\ m.readers = {}, m |-> [m EXCEPT !.writer = {d}]]

\* Faulty variant of GetClient_Lock: tc.mu.Lock() instead of tc.mu.RLock().
GetClient_Lock_Exclusive(m, d) == Lock(m, d)

\* GetClient: tc.mu.RLock()
GetClient_Lock(m, d) == RLock(m, d)

\* GetClient: defer tc.mu.RUnlock()
GetClient_Unlock(m, d) == RUnlock(m, d)

\* Faulty variant of GetClient: a new, empty client is returned.
GetClient_Zero(t) == [Tailnet |-> "", APIKey |-> "", HTTP |-> NilHTTP]

\* GetClient: return tc.client
GetClient(t) == t.client

\* Faulty variant of ValidateConnection: the probe's error is returned as
\* it is, without the wrapping message.
ValidateConnection_Unwrapped(t, out) == out.err

\* Faulty variant of ValidateConnection: the probe's error is dropped.
ValidateConnection_Swallowed(t, out) == NoErr

\* out is the outcome of the one Devices().List call.
ValidateConnection(t, out) ==
  IF out.err # NoErr
  THEN <<"failed", "to", "validate", "Tailscale", "connection:">> \o out.err
  ELSE NoErr

(***************************************************************************)
(* The environment: the process environment, the calls a client may send   *)
(* and the outcomes the remote API may return.                             *)
(***************************************************************************)
Environments ==
  [TAILSCALE_API_KEY : {"", "tskey-api-1"},
   TAILSCALE_TAILNET : {"", "example.com"},
   TAILSCALE_CLIENT_ID : {"", "client-1"},
   TAILSCALE_CLIENT_SECRET : {"", "secret-1"}]

\* The JSON values a call may supply for a declared parameter: values of
\* the declared type (for an enum, its members and one value outside it)
\* and one value of another JSON type.
CandidateValues(p) ==
  CASE p.type = "string" ->
         {JStr(x) : x \in (IF p.enum # {} THEN p.enum \cup {"bogus"}
                           ELSE {"d-1"})} \cup {JNum(7)}
    [] p.type = "boolean" -> {JBool(TRUE), JBool(FALSE), JStr("yes")}
    [] p.type = "number" -> {JNum(60), JStr("soon")}
    [] OTHER -> {JArr(<<"tag:ci">>), JStr("tag:ci")}

\* A field that no tool declares.
UnknownField == "unknown_field" :> JStr("x")

\* The arguments a call to a tool may carry: none, a JSON value that is
\* not an object, or an object supplying up to MaxSupplied parameters,
\* with or without a field that the tool does not declare.
ArgumentsFor(params) ==
  LET ps == {params[i] : i \in 1..Len(params)}
      byName(n) == CHOOSE q \in ps : q.name = n
      names == {q.name : q \in ps}
      all == UNION {CandidateValues(q) : q \in ps}
      sets == {S \in SUBSET names : Cardinality(S) <= MaxSupplied}
      objects(Ss) == UNION {
        {g \in [S -> all] : \A n \in S : g[n] \in CandidateValues(byName(n))}
        : S \in Ss}
  IN {NilArgs, JStr("oops")}
     \cup {JObj(f) : f \in objects(sets)}
     \cup {JObj(f @@ UnknownField) :
             f \in objects({S \in sets : Cardinality(S) <= MaxWithUnknown})}

\* ctx.Err() after cancellation.
ContextCanceled == <<"context", "canceled">>

RemoteErrors == {<<"forbidden", "(403)">>, ContextCanceled}

RemoteValues ==
  { <<StrField("id", "d-1"), TimeField("created", 2025, "2025-01-01T00:00:00Z")>>,
    <<StrField("id", "d-1"), TimeField("expires", 10000, "")>> }

RemotePolicies ==
  { [HuJSON |-> <<"{", "\"acls\":", "[]", "}">>, ETag |-> "e1"],
    [HuJSON |-> <<"//", "rules", "{", "\"acls\":", "[]", "}">>, ETag |-> "e2"] }

ErrorOnlyOps ==
  {"Devices.Delete", "Devices.SetAuthorized", "Devices.SetName",
   "Devices.SetTags", "Devices.SetKey", "Devices.SetSubnetRoutes",
   "Keys.Delete", "Contacts.Update", "DNS.SetNameservers",
   "DNS.SetPreferences", "DNS.SetSearchPaths", "PolicyFile.Set",
   "PolicyFile.Validate", "Webhooks.Delete",
   "DevicePosture.DeleteIntegration", "TailnetSettings.Update"}

\* What the remote API may answer to a request.
Outcomes(req) ==
  {[err |-> e, val |-> NoValue] : e \in RemoteErrors}
  \cup (CASE req.op \in ErrorOnlyOps -> {[err |-> NoErr, val |-> NoValue]}
          [] req.op = "PolicyFile.Raw" ->
               {[err |-> NoErr, val |-> v] : v \in RemotePolicies}
          [] OTHER -> {[err |-> NoErr, val |-> v] : v \in RemoteValues})

\* The policy file of the remote API: its text and the ETag of that text.
ETagOf(text) == "etag-of-" \o text

PolicyFileOf(text) == [HuJSON |-> text, ETag |-> ETagOf(text)]

InitialPolicy == PolicyFileOf("p-0")

\* The remote API accepts a write of the policy file when the request
\* carries no ETag or the ETag of the policy it holds.
PolicyFile_Accepts(p, req, out) ==
  (req.op = "PolicyFile.Set" /\ out.err = NoErr) => req.etag \in {"", p.ETag}

\* An accepted write replaces the policy file; nothing else changes it.
PolicyFile_Apply(p, req, out) ==
  IF req.op = "PolicyFile.Set" /\ out.err = NoErr
  THEN PolicyFileOf(req.policy)
  ELSE p

\* What a remote request returns once the context it was given is
\* cancelled: the request is abandoned and the context's error comes back.
CancelledOutcomes == {[err |-> ContextCanceled, val |-> NoValue]}

(***************************************************************************)
(* State.                                                                  *)
(*   pc        where main is: load, construct, validate, register, serve,  *)
(*             or exited after log.Fatalf                                  *)
(*   env       the process environment                                     *)
(*   cfg, tc   main's cfg and tailscaleClient                              *)
(*   probe     the remote requests ValidateConnection has issued, each     *)
(*             with the error it got                                       *)
(*   fatal     the message of log.Fatalf, if any                           *)
(*   registry  the server's tools, by name                                 *)
(*   call      the tool call being handled                                 *)
(*   mu        the TailscaleClient's mutex                                 *)
(*   disp      the tool calls being handled at the same time, each with    *)
(*             the place its handler has reached                           *)
(*   policy    the policy file that the remote API holds                   *)
(***************************************************************************)
IdleCall == [st |-> "idle"]

\* The state of a call whose handler has come as far as h.
CallState(request, outs, h) ==
  [st |-> IF h.done THEN "completed" ELSE "executing",
   request |-> request, outs |-> outs, remote |-> h.remote,
   result |-> h.result, err |-> h.err, gotClient |-> h.gotClient,
   cancelled |-> FALSE]

Dispatches == 1..MaxDispatches

IdleDispatch == [at |-> "idle"]

\* The tools that calls handled at the same time are calls of: one whose
\* handler obtains the client and calls the remote API, one whose handler
\* does neither.
ConcTools == {"tailscale_devices_list", "tailscale_user_approve"}

\* The calls that write at the same time: calls that set the policy file
\* to one of two policies and a call that sets the tags of a device.
Writers == 1..MaxWriters

WriteRequests ==
  {[name |-> "tailscale_policy_set",
    arguments |-> JObj("policy" :> JStr(p))] : p \in {"p-1", "p-2"}}
  \cup {[name |-> "tailscale_device_set_tags",
          arguments |-> JObj(("device_id" :> JStr("d-1"))
                             @@ ("tags" :> JArr(<<"tag:ci">>)))]}

Init ==
  /\ pc = "load"
  /\ env \in Environments
  /\ cfg = NilConfig
  /\ tc = NilClient
  /\ probe = <<>>
  /\ fatal = <<>>
  /\ registry = <<>>
  /\ call = IdleCall
  /\ mu = UnlockedMutex
  /\ disp = [d \in Dispatches |-> IdleDispatch]
  /\ policy = InitialPolicy

\* cfg, err := config.LoadConfig(); log.Fatalf on error
MainLoadConfig ==
  /\ pc = "load"
  /\ LET r == LoadConfig(env)
     IN /\ cfg' = r.cfg
        /\ IF r.err # NoErr
           THEN /\ fatal' = <<"Failed", "to", "load", "configuration:">> \o r.err
                /\ pc' = "exited"
           ELSE /\ fatal' = fatal
                /\ pc' = "construct"
  /\ UNCHANGED <<env, tc, probe, registry, call, mu, disp, policy>>

\* tailscaleClient, err := client.NewTailscaleClient(cfg); log.Fatalf on error
MainNewClient ==
  /\ pc = "construct"
  /\ LET r == NewTailscaleClient(cfg)
     IN IF r.err # NoErr
        THEN /\ fatal' = <<"Failed", "to", "create", "Tailscale", "client:">>
                           \o r.err
             /\ pc' = "exited"
             /\ tc' = tc
        ELSE /\ tc' = r.tc
             /\ pc' = "validate"
             /\ fatal' = fatal
  /\ UNCHANGED <<env, cfg, probe, registry, call, mu, disp, policy>>

\* tailscaleClient.ValidateConnection(context.Background()); log.Fatalf on error
MainValidate ==
  /\ pc = "validate"
  /\ \E out \in Outcomes([op |-> "Devices.List"]) :
       LET err == ValidateConnection(tc, out)
       IN /\ probe' = Append(probe, [req |-> [op |-> "Devices.List"],
                                      err |-> out.err])
          /\ IF err # NoErr
             THEN /\ fatal' = <<"Failed", "to", "validate", "Tailscale",
                                "connection:">> \o err
                  /\ pc' = "exited"
             ELSE /\ fatal' = fatal
                  /\ pc' = "register"
  /\ UNCHANGED <<env, cfg, tc, registry, call, mu, disp, policy>>

\* server.NewMCPServer; handler.RegisterTools(mcpServer); server.ServeStdio
MainRegister ==
  /\ pc = "register"
  /\ registry' = Handler_RegisterTools(registry)
  /\ pc' = "serve"
  /\ UNCHANGED <<env, cfg, tc, probe, fatal, call, mu, disp, policy>>

\* The server receives a call of a registered tool and runs its handler up
\* to its return or to its first remote request.
CallTool ==
  /\ pc = "serve"
  /\ call.st = "idle"
  /\ \E name \in DOMAIN registry :
       \E arguments \in ArgumentsFor(registry[name].params) :
         LET request == [name |-> name, arguments |-> arguments]
         IN call' = CallState(request, <<>>,
                              Invoke(registry[name].handler, request, <<>>))
  /\ UNCHANGED <<pc, env, cfg, tc, probe, fatal, registry, mu, disp, policy>>

\* The context of the call being handled is cancelled while the handler
\* waits for the remote API.
Cancel ==
  /\ call.st = "executing"
  /\ ~call.cancelled
  /\ call' = [call EXCEPT !.cancelled = TRUE]
  /\ UNCHANGED <<pc, env, cfg, tc, probe, fatal, registry, mu, disp, policy>>

\* The remote API answers the handler's pending request, or the request is
\* unwound because the context it was given is cancelled; the handler runs
\* on to its return or to its next remote request.
RemoteReturn ==
  /\ call.st = "executing"
  /\ \E out \in (IF call.cancelled THEN CancelledOutcomes
                  ELSE Outcomes(call.remote[Len(call.remote)])) :
       LET outs == Append(call.outs, out)
           req == call.remote[Len(call.remote)]
       IN /\ PolicyFile_Accepts(policy, req, out)
          /\ policy' = PolicyFile_Apply(policy, req, out)
          /\ call' = [CallState(call.request, outs,
                                Invoke(registry[call.request.name].handler,
                                       call.request, outs))
                      EXCEPT !.cancelled = call.cancelled]
  /\ UNCHANGED <<pc, env, cfg, tc, probe, fatal, registry, mu, disp>>

\* The server writes the call's result to the transport.
Deliver ==
  /\ call.st = "completed"
  /\ call' = IdleCall
  /\ UNCHANGED <<pc, env, cfg, tc, probe, fatal, registry, mu, disp, policy>>

Next ==
  \/ MainLoadConfig
  \/ MainNewClient
  \/ MainValidate
  \/ MainRegister
  \/ CallTool
  \/ RemoteReturn
  \/ Cancel
  \/ Deliver

Spec == Init /\ [][Next]_vars

(***************************************************************************)
(* Tool calls handled at the same time.  Each handler is followed through  *)
(* GetClient statement by statement: RLock, the read of tc.client, the     *)
(* deferred RUnlock, then the remote request.                              *)
(***************************************************************************)
\* Faulty variant of Handling: the handlers keep the request in a field
\* they share, so a handler runs on the request of the first call that is
\* being handled.
Handling_SharedRequest(d) ==
  LET r == IF disp[1].at # "idle" THEN disp[1].request ELSE disp[d].request
  IN Invoke(registry[r.name].handler, r, disp[d].outs)

\* The handler of the dispatch d, run on the outcomes it has got so far.
Handling(d) ==
  Invoke(registry[disp[d].request.name].handler, disp[d].request, disp[d].outs)

\* The server hands a call to its handler, which runs up to its return or
\* up to its call of GetClient.
Dispatch(d) ==
  /\ pc = "serve"
  /\ disp[d].at = "idle"
  /\ \E name \in ConcTools :
       LET request == [name |-> name, arguments |-> NilArgs]
           h == Invoke(registry[name].handler, request, <<>>)
       IN disp' = [disp EXCEPT ![d] =
                     [at |-> IF h.done THEN "completed" ELSE "RLock",
                      request |-> request, outs |-> <<>>, client |-> NilPtr]]
  /\ UNCHANGED <<pc, env, cfg, tc, probe, fatal, registry, call, mu, policy>>

GetClientRLock(d) ==
  /\ disp[d].at = "RLock"
  /\ GetClient_Lock(mu, d).ok
  /\ mu' = GetClient_Lock(mu, d).m
  /\ disp' = [disp EXCEPT ![d].at = "read"]
  /\ UNCHANGED <<pc, env, cfg, tc, probe, fatal, registry, call, policy>>

GetClientRead(d) ==
  /\ disp[d].at = "read"
  /\ disp' = [disp EXCEPT ![d].at = "RUnlock", ![d].client = Ptr(GetClient(tc))]
  /\ UNCHANGED <<pc, env, cfg, tc, probe, fatal, registry, call, mu, policy>>

\* The deferred RUnlock runs, GetClient returns and the handler issues its
\* remote request.
GetClientRUnlock(d) ==
  /\ disp[d].at = "RUnlock"
  /\ mu' = GetClient_Unlock(mu, d)
  /\ disp' = [disp EXCEPT ![d].at = "remote"]
  /\ UNCHANGED <<pc, env, cfg, tc, probe, fatal, registry, call, policy>>

DispatchRemoteReturn(d) ==
  /\ disp[d].at = "remote"
  /\ LET pending == Handling(d).remote
     IN \E out \in Outcomes(pending[Len(pending)]) :
          LET outs == Append(disp[d].outs, out)
              h == Invoke(registry[disp[d].request.name].handler,
                          disp[d].request, outs)
          IN /\ PolicyFile_Accepts(policy, pending[Len(pending)], out)
             /\ policy' = PolicyFile_Apply(policy, pending[Len(pending)], out)
             /\ disp' = [disp EXCEPT ![d].outs = outs,
                                     ![d].at = IF h.done THEN "completed"
                                               ELSE "remote"]
  /\ UNCHANGED <<pc, env, cfg, tc, probe, fatal, registry, call, mu>>

DispatchDeliver(d) ==
  /\ disp[d].at = "completed"
  /\ disp' = [disp EXCEPT ![d] = IdleDispatch]
  /\ UNCHANGED <<pc, env, cfg, tc, probe, fatal, registry, call, mu, policy>>

NextConc ==
  \/ MainLoadConfig
  \/ MainNewClient
  \/ MainValidate
  \/ MainRegister
  \/ \E d \in Dispatches : Dispatch(d)
  \/ \E d \in Dispatches : GetClientRLock(d)
  \/ \E d \in Dispatches : GetClientRead(d)
  \/ \E d \in Dispatches : GetClientRUnlock(d)
  \/ \E d \in Dispatches : DispatchRemoteReturn(d)
  \/ \E d \in Dispatches : DispatchDeliver(d)

SpecConc == Init /\ [][NextConc]_vars

\* The server hands a writing call to its handler, which runs up to its
\* call of GetClient.
DispatchWrite(d) ==
  /\ pc = "serve"
  /\ disp[d].at = "idle"
  /\ \E request \in WriteRequests :
       LET h == Invoke(registry[request.name].handler, request, <<>>)
       IN disp' = [disp EXCEPT ![d] =
                     [at |-> IF h.done THEN "completed" ELSE "RLock",
                      request |-> request, outs |-> <<>>, client |-> NilPtr]]
  /\ UNCHANGED <<pc, env, cfg, tc, probe, fatal, registry, call, mu, policy>>

NextWrites ==
  \/ MainLoadConfig
  \/ MainNewClient
  \/ MainValidate
  \/ MainRegister
  \/ \E d \in Writers : DispatchWrite(d)
  \/ \E d \in Writers : GetClientRLock(d)
  \/ \E d \in Writers : GetClientRead(d)
  \/ \E d \in Writers : GetClientRUnlock(d)
  \/ \E d \in Writers : DispatchRemoteReturn(d)
  \/ \E d \in Writers : DispatchDeliver(d)

SpecWrites == Init /\ [][NextWrites]_vars

\* A remote request whose context is cancelled returns.
SpecCancel ==
  /\ Init /\ [][Next]_vars
  /\ WF_vars(call.st = "executing" /\ call.cancelled /\ RemoteReturn)

(***************************************************************************)
(* Vocabulary of the properties.                                           *)
(***************************************************************************)
Active == call.st # "idle"

Completed == call.st = "completed"

CalledTool == call.request.name

ResultText == call.result.content[1].text

HasPrefix(text, pre) ==
  Len(text) >= Len(pre) /\ SubSeq(text, 1, Len(pre)) = pre

HasSuffix(text, suf) ==
  Len(text) >= Len(suf)
  /\ SubSeq(text, Len(text) - Len(suf) + 1, Len(text)) = suf

DeclaredParams(name) ==
  {registry[name].params[i] : i \in 1..Len(registry[name].params)}

\* The call supplies the parameter n.
Supplies(request, n) ==
  request.arguments.kind = "object" /\ n \in DOMAIN request.arguments.fields

\* The call supplies the parameter n with exactly the JSON value j.
SuppliesValue(request, n, j) ==
  Supplies(request, n) /\ request.arguments.fields[n] = j

JsonKindOfDeclared(type) ==
  CASE type = "string" -> "string"
    [] type = "boolean" -> "bool"
    [] type = "number" -> "number"
    [] OTHER -> "array"

\* The arguments are absent or an object whose supplied parameters all have
\* the JSON type the tool declares for them.
WellTyped(request) ==
  \/ request.arguments.kind = "nil"
  \/ /\ request.arguments.kind = "object"
     /\ \A p \in DeclaredParams(request.name) :
          Supplies(request, p.name) =>
            request.arguments.fields[p.name].kind = JsonKindOfDeclared(p.type)

LastOutcomeFailed ==
  Len(call.outs) > 0 /\ call.outs[Len(call.outs)].err # NoErr

StubTools ==
  {"tailscale_user_approve", "tailscale_user_suspend",
   "tailscale_user_restore", "tailscale_user_delete"}

NotAvailableText(name) ==
  <<"User",
    CASE name = "tailscale_user_approve" -> "approval"
      [] name = "tailscale_user_suspend" -> "suspension"
      [] name = "tailscale_user_restore" -> "restoration"
      [] OTHER -> "deletion",
    "functionality", "is", "not", "available", "in", "the", "current", "API">>

MutatingTools ==
  {"tailscale_device_delete", "tailscale_device_authorize",
   "tailscale_device_set_name", "tailscale_device_set_tags",
   "tailscale_device_expire", "tailscale_device_routes_set",
   "tailscale_key_create", "tailscale_key_delete",
   "tailscale_webhook_create", "tailscale_webhook_delete",
   "tailscale_device_posture_integration_create",
   "tailscale_device_posture_integration_delete",
   "tailscale_tailnet_settings_update", "tailscale_contact_update",
   "tailscale_dns_nameservers_set", "tailscale_dns_preferences_set",
   "tailscale_dns_searchpaths_set", "tailscale_policy_set",
   "tailscale_policy_validate"}

(***************************************************************************)
(* C1                                                                      *)
(***************************************************************************)
\* C1: every tool call, whatever its arguments and whatever the remote API
\* answers, ends with exactly one result, which is a text payload or an
\* error payload: while the handler runs there is no result, and when it
\* has returned there is a result (never nil, never a Go error instead)
\* that holds one text item and is flagged either as error or as text.
C1_ExactlyOneResult ==
  /\ call.st = "executing" => call.result = NilResult
  /\ Completed =>
       /\ call.result # NilResult
       /\ call.err = NoErr
       /\ Len(call.result.content) = 1
       /\ call.result.content[1].type = "text"
       /\ call.result.isError \in BOOLEAN

\* A settings update whose second remote call was made and which ended in
\* an error result.
C1_Witness ==
  /\ Completed
  /\ CalledTool = "tailscale_tailnet_settings_update"
  /\ Len(call.remote) = 2
  /\ call.result.isError

(***************************************************************************)
(* C2                                                                      *)
(***************************************************************************)
\* The call omits a parameter its tool declares as required.
OmitsRequired(request) ==
  \E p \in DeclaredParams(request.name) :
    p.required /\ ~Supplies(request, p.name)

\* C2: for every tool that declares a required parameter, a call that omits
\* it returns an error result and issues no remote request.
C2_MissingRequiredRejected ==
  (Active /\ OmitsRequired(call.request)) =>
    /\ Len(call.remote) = 0
    /\ Completed
    /\ call.result.isError

(***************************************************************************)
(* C3                                                                      *)
(***************************************************************************)
\* The call supplies, for a parameter declared with an enum, a value that
\* is not one of the enum's members.
OutsideEnum(request) ==
  \E p \in DeclaredParams(request.name) :
    /\ p.enum # {}
    /\ Supplies(request, p.name)
    /\ request.arguments.fields[p.name] \notin {JStr(x) : x \in p.enum}

\* C3: a call whose value for an enum parameter lies outside the enum is
\* rejected with an error result before any remote request is issued.
C3_OutsideEnumRejected ==
  (Active /\ OutsideEnum(call.request)) =>
    /\ Len(call.remote) = 0
    /\ Completed
    /\ call.result.isError

(***************************************************************************)
(* C4                                                                      *)
(***************************************************************************)
StartupSteps ==
  {<<"load", "construct">>, <<"load", "exited">>,
   <<"construct", "validate">>, <<"construct", "exited">>,
   <<"validate", "register">>, <<"validate", "exited">>,
   <<"register", "serve">>}

LoadFailed == pc # "load" /\ cfg = NilConfig

ProbeFailed == Len(probe) > 0 /\ probe[Len(probe)].err # NoErr

\* C4: main goes through load, construct, validate, register, serve in this
\* order and can only leave the order by exiting; a failed load or a failed
\* connectivity probe leaves the process exited with nothing registered;
\* a handler runs only while serving, which is reached only after the
\* configuration was loaded, the client built, the one probe answered
\* without error and the tools registered.
C4_StartupOrder ==
  /\ [][pc' # pc => <<pc, pc'>> \in StartupSteps]_vars
  /\ []((LoadFailed \/ ProbeFailed) =>
          pc = "exited" /\ call = IdleCall /\ registry = <<>>)
  /\ [](pc = "exited" => call = IdleCall /\ fatal # <<>>)
  /\ [](Active => pc = "serve")
  /\ [](pc = "serve" =>
          /\ cfg # NilConfig
          /\ tc # NilClient
          /\ Len(probe) = 1
          /\ probe[1].err = NoErr
          /\ registry # <<>>)

\* The probe failed and the process has exited.
C4_Witness ==
  pc = "exited" /\ Len(probe) = 1 /\ probe[1].err # NoErr /\ cfg # NilConfig

(***************************************************************************)
(* C5                                                                      *)
(***************************************************************************)
\* C5 as claimed: whenever a tool's remote call returned an error, the
\* result is an error payload that begins "Failed to", goes on with an
\* operation description and ends with the underlying error text.
C5_FailedToPrefix ==
  (Completed /\ LastOutcomeFailed) =>
    LET e == call.outs[Len(call.outs)].err
    IN /\ call.result.isError
       /\ HasPrefix(ResultText, <<"Failed", "to">>)
       /\ HasSuffix(ResultText, e)
       /\ Len(ResultText) > 2 + Len(e)

\* C5 amended: whenever a tool's remote call returned an error, the result
\* is an error payload made of a description of the operation followed by
\* the underlying error text; the description begins "Failed to" for every
\* tool except tailscale_policy_validate, whose message is
\* "Policy validation failed: <underlying error>".
C5_FailurePrefix ==
  (Completed /\ LastOutcomeFailed) =>
    LET e == call.outs[Len(call.outs)].err
    IN /\ call.result.isError
       /\ HasSuffix(ResultText, e)
       /\ IF CalledTool = "tailscale_policy_validate"
          THEN ResultText = <<"Policy", "validation", "failed:">> \o e
          ELSE /\ HasPrefix(ResultText, <<"Failed", "to">>)
               /\ Len(ResultText) > 2 + Len(e)

\* Setting the DNS preferences was refused by the remote API.
C5_Witness ==
  /\ Completed
  /\ CalledTool = "tailscale_dns_preferences_set"
  /\ SuppliesValue(call.request, "magic_dns", JBool(FALSE))
  /\ LastOutcomeFailed
  /\ HasPrefix(ResultText, <<"Failed", "to", "set", "DNS", "preferences:">>)

(***************************************************************************)
(* C6                                                                      *)
(***************************************************************************)
\* C6: a call of one of the four user-lifecycle tools never issues a remote
\* request and never obtains the client (so it is never left waiting), and
\* with a user_id that is a string its result is the tool's fixed
\* "not available" error.
C6_StubsNeverRemote ==
  (Active /\ CalledTool \in StubTools) =>
    /\ Completed
    /\ Len(call.remote) = 0
    /\ ~call.gotClient
    /\ SuppliesValue(call.request, "user_id", JStr("d-1")) =>
         call.result = NewToolResultError(NotAvailableText(CalledTool))

\* An approval with a well-formed user_id came back "not available".
C6_Witness ==
  /\ Completed
  /\ CalledTool = "tailscale_user_approve"
  /\ SuppliesValue(call.request, "user_id", JStr("d-1"))
  /\ call.result.isError

(***************************************************************************)
(* C7                                                                      *)
(***************************************************************************)
\* C7 as claimed: whatever the arguments, the result of a call of one of
\* the four user-lifecycle tools is the "not available" error.
C7_AlwaysNotAvailable ==
  (Completed /\ CalledTool \in StubTools) =>
    call.result = NewToolResultError(NotAvailableText(CalledTool))

\* C7 amended: a call of one of the four user-lifecycle tools always ends
\* in an error result without a remote request; the error is the
\* "not available" error when the arguments can be decoded (absent, or an
\* object in which user_id, if supplied, is a string) and the validation
\* error "Invalid arguments: ..." when they cannot.
C7_NotAvailableOrInvalid ==
  (Completed /\ CalledTool \in StubTools) =>
    /\ call.result.isError
    /\ Len(call.remote) = 0
    /\ IF WellTyped(call.request)
       THEN ResultText = NotAvailableText(CalledTool)
       ELSE HasPrefix(ResultText, <<"Invalid", "arguments:">>)

\* A deletion whose user_id is a number came back as a validation error.
C7_Witness ==
  /\ Completed
  /\ CalledTool = "tailscale_user_delete"
  /\ SuppliesValue(call.request, "user_id", JNum(7))
  /\ HasPrefix(ResultText, <<"Invalid", "arguments:">>)

(***************************************************************************)
(* C8                                                                      *)
(***************************************************************************)
ContactTypeKnown(request) ==
  \E x \in {"account", "support", "security"} :
    SuppliesValue(request, "contact_type", JStr(x))

\* The arguments are decoded and the handler accepts them: they bind
\* without error and, for tailscale_contact_update, contact_type is one of
\* account, support and security.
Accepted(request) ==
  /\ WellTyped(request)
  /\ request.name = "tailscale_contact_update" => ContactTypeKnown(request)

\* C8 as claimed: every call of a mutating tool whose arguments were
\* decoded and accepted has issued exactly one remote request when it ends.
C8_ExactlyOneRemoteCall ==
  (Completed /\ CalledTool \in MutatingTools /\ Accepted(call.request)) =>
    Len(call.remote) = 1

\* C8 amended: a call of a mutating tool whose arguments were decoded and
\* accepted issues exactly one remote request, except
\* tailscale_tailnet_settings_update: once its update has succeeded it
\* issues a second request that reads the settings back, so it ends with
\* two remote requests (with one when the update fails).  No call issues
\* more, and every such call issues its first request before it returns.
C8_RemoteCallsOfMutatingTools ==
  (Active /\ CalledTool \in MutatingTools /\ Accepted(call.request)) =>
    IF CalledTool = "tailscale_tailnet_settings_update"
    THEN /\ Len(call.remote) \in {1, 2}
         /\ call.remote[1].op = "TailnetSettings.Update"
         /\ Len(call.remote) = 2 <=>
              (Len(call.outs) >= 1 /\ call.outs[1].err = NoErr)
         /\ Len(call.remote) = 2 =>
              call.remote[2] = [op |-> "TailnetSettings.Get"]
    ELSE Len(call.remote) = 1

\* A settings update that succeeded: the update and the read-back.
C8_Witness ==
  /\ Completed
  /\ CalledTool = "tailscale_tailnet_settings_update"
  /\ Len(call.remote) = 2
  /\ ~call.result.isError

(***************************************************************************)
(* C9                                                                      *)
(***************************************************************************)
\* C9: a call of tailscale_devices_list or tailscale_device_get whose
\* arguments decode issues exactly one remote request: the full-field
\* variant when fields is "all", the standard variant when fields is
\* "default" or omitted.
C9_FieldsRouting ==
  (Active /\ CalledTool \in {"tailscale_devices_list", "tailscale_device_get"}
   /\ WellTyped(call.request)) =>
    LET list == CalledTool = "tailscale_devices_list"
        all == SuppliesValue(call.request, "fields", JStr("all"))
        std == \/ ~Supplies(call.request, "fields")
               \/ SuppliesValue(call.request, "fields", JStr("default"))
    IN /\ all => /\ Len(call.remote) = 1
                 /\ call.remote[1].op =
                      IF list THEN "Devices.ListWithAllFields"
                      ELSE "Devices.GetWithAllFields"
       /\ std => /\ Len(call.remote) = 1
                 /\ call.remote[1].op =
                      IF list THEN "Devices.List" ELSE "Devices.Get"

\* A list of devices asked with fields "all" went to the full-field variant.
C9_Witness ==
  /\ Completed
  /\ CalledTool = "tailscale_devices_list"
  /\ SuppliesValue(call.request, "fields", JStr("all"))
  /\ call.remote = <<[op |-> "Devices.ListWithAllFields"]>>
  /\ ~call.result.isError

(***************************************************************************)
(* C10                                                                     *)
(***************************************************************************)
\* C10: over all combinations of empty and non-empty API key, OAuth client
\* id and OAuth client secret, LoadConfig returns a configuration exactly
\* when the API key is non-empty or both OAuth values are non-empty; in
\* every other combination it returns no configuration and the error that
\* main reports as "Failed to load configuration: ...".
C10_LoadConfigIff ==
  pc # "load" =>
    LET usable == \/ env.TAILSCALE_API_KEY # ""
                  \/ /\ env.TAILSCALE_CLIENT_ID # ""
                     /\ env.TAILSCALE_CLIENT_SECRET # ""
        reported == HasPrefix(fatal, <<"Failed", "to", "load",
                                       "configuration:">>)
    IN /\ usable <=> cfg # NilConfig
       /\ usable <=> ~reported
       /\ ~usable => pc = "exited"

\* Only the OAuth client id is set: loading failed.
C10_Witness ==
  /\ pc = "exited"
  /\ env.TAILSCALE_API_KEY = ""
  /\ env.TAILSCALE_CLIENT_ID # ""
  /\ env.TAILSCALE_CLIENT_SECRET = ""
  /\ cfg = NilConfig

(***************************************************************************)
(* C11                                                                     *)
(***************************************************************************)
\* C11: OAuth mode is selected exactly when both the OAuth client id and
\* the client secret are non-empty, API-key mode otherwise; the client that
\* is built carries exactly one authentication mechanism: in OAuth mode the
\* OAuth transport for the configured id and secret with the scopes
\* all:read and all:write and no API key (also when an API key was
\* supplied), in API-key mode the API key and no OAuth transport.
C11_OneAuthMechanism ==
  LET both == env.TAILSCALE_CLIENT_ID # "" /\ env.TAILSCALE_CLIENT_SECRET # ""
  IN /\ cfg # NilConfig => (cfg.UseOAuth <=> both)
     /\ tc # NilClient =>
          LET c == GetClient(tc)
          IN IF both
             THEN /\ c.APIKey = ""
                  /\ c.HTTP # NilHTTP
                  /\ c.HTTP.oauth.ClientID = env.TAILSCALE_CLIENT_ID
                  /\ c.HTTP.oauth.ClientSecret = env.TAILSCALE_CLIENT_SECRET
                  /\ {c.HTTP.oauth.Scopes[i] : i \in 1..Len(c.HTTP.oauth.Scopes)}
                       = {"all:read", "all:write"}
             ELSE /\ c.APIKey = env.TAILSCALE_API_KEY
                  /\ c.APIKey # ""
                  /\ c.HTTP = NilHTTP

\* An API key and both OAuth values were supplied and the client was built.
C11_Witness ==
  /\ tc # NilClient
  /\ env.TAILSCALE_API_KEY # ""
  /\ env.TAILSCALE_CLIENT_ID # ""
  /\ env.TAILSCALE_CLIENT_SECRET # ""
  /\ GetClient(tc).APIKey = ""

(***************************************************************************)
(* C12                                                                     *)
(***************************************************************************)
\* C12: no error of a call ends the process or reaches the transport as a
\* Go error: every handler returns a result and a nil error on every path;
\* once serving, the process keeps serving and logs nothing fatal; the
\* step after a call that ended in an error result hands the result over
\* and leaves the server idle with its tools registered, where it accepts
\* the next call.
C12_PerCallErrorsContained ==
  /\ [](Completed => call.err = NoErr /\ call.result # NilResult)
  /\ [][pc = "serve" => pc' = "serve" /\ fatal' = <<>>]_vars
  /\ [][(Completed /\ call.result.isError) =>
          (call' = IdleCall /\ registry' = registry)]_vars
  /\ []((pc = "serve" /\ call = IdleCall) => ENABLED CallTool)

\* A contact update that the remote API refused has ended in an error
\* result while the process is serving.
C12_Witness ==
  /\ Completed
  /\ pc = "serve"
  /\ CalledTool = "tailscale_contact_update"
  /\ LastOutcomeFailed
  /\ call.result.isError

(***************************************************************************)
(* C13                                                                     *)
(***************************************************************************)
\* C13: when the context of a call is cancelled while one of its remote
\* requests is in flight, the request is unwound with the context's error
\* and the call eventually completes with an error result; a cancelled
\* call never completes otherwise and never stays pending.
C13_CancelledCallCompletes ==
  /\ []((Completed /\ call.cancelled) =>
          /\ call.result.isError
          /\ call.outs[Len(call.outs)].err = ContextCanceled)
  /\ ((call.st = "executing" /\ call.cancelled) ~>
        (Completed /\ call.cancelled /\ call.result.isError))

\* A key creation was cancelled while its remote request was in flight and
\* has completed with an error result.
C13_Witness ==
  /\ Completed
  /\ call.cancelled
  /\ CalledTool = "tailscale_key_create"
  /\ Len(call.remote) = 1
  /\ call.result.isError
  /\ HasSuffix(ResultText, ContextCanceled)

(***************************************************************************)
(* C14                                                                     *)
(***************************************************************************)
\* The five catalogs in registration order, as one sequence of
\* registrations.
Registrations ==
  DeviceTools_RegisterTools \o KeyTools_RegisterTools
    \o UserTools_RegisterTools \o DNSTools_RegisterTools
    \o AdditionalTools_RegisterTools

\* C14: the 42 registrations (9 device, 4 key, 8 user and contact, 9 DNS
\* and policy, 12 advanced) use 42 pairwise distinct names, so the registry
\* of the serving process holds exactly 42 tools, each under its own name
\* and bound to its own registration; registering the catalogs once more
\* changes nothing.
C14_ToolNamesUnique ==
  pc = "serve" =>
    /\ Len(DeviceTools_RegisterTools) = 9
    /\ Len(KeyTools_RegisterTools) = 4
    /\ Len(UserTools_RegisterTools) = 8
    /\ Len(DNSTools_RegisterTools) = 9
    /\ Len(AdditionalTools_RegisterTools) = 12
    /\ \A i, j \in 1..Len(Registrations) :
         Registrations[i].name = Registrations[j].name => i = j
    /\ Cardinality(DOMAIN registry) = 42
    /\ \A i \in 1..Len(Registrations) :
         /\ Registrations[i].name \in DOMAIN registry
         /\ registry[Registrations[i].name] = Registrations[i]
    /\ Handler_RegisterTools(registry) = registry

\* The process serves with the first and the last registered tool in its
\* registry.
C14_Witness ==
  /\ pc = "serve"
  /\ call = IdleCall
  /\ "tailscale_devices_list" \in DOMAIN registry
  /\ "tailscale_tailnet_settings_update" \in DOMAIN registry

(***************************************************************************)
(* C15                                                                     *)
(***************************************************************************)
\* The boolean the call supplies for the parameter n, FALSE when omitted.
SuppliedBool(request, n) ==
  IF Supplies(request, n) THEN request.arguments.fields[n].b ELSE FALSE

\* The list the call supplies for the parameter n, empty when omitted.
SuppliedList(request, n) ==
  IF Supplies(request, n) THEN request.arguments.fields[n].a ELSE <<>>

\* C15: a tailscale_key_create call whose arguments decode issues one
\* Keys.Create request whose device-create capabilities are the supplied
\* reusable, ephemeral, preauthorized and tags, an omitted boolean being
\* false; when the remote call succeeds the result is the text of the
\* indented JSON of the key it returned (or, if that key cannot be
\* encoded, the error "Failed to marshal key: ...").
C15_CreateKeyCapabilities ==
  (Active /\ CalledTool = "tailscale_key_create" /\ WellTyped(call.request)) =>
    /\ Len(call.remote) = 1
    /\ call.remote[1].op = "Keys.Create"
    /\ LET create == call.remote[1].req.Capabilities.Devices.Create
       IN /\ create.Reusable = SuppliedBool(call.request, "reusable")
          /\ create.Ephemeral = SuppliedBool(call.request, "ephemeral")
          /\ create.Preauthorized = SuppliedBool(call.request, "preauthorized")
          /\ create.Tags = SuppliedList(call.request, "tags")
    /\ (Completed /\ call.outs[1].err = NoErr) =>
         LET m == MarshalIndent(call.outs[1].val)
         IN IF m.err = NoErr
            THEN call.result = NewToolResultText(m.text)
            ELSE /\ call.result.isError
                 /\ HasPrefix(ResultText, <<"Failed", "to", "marshal", "key:">>)

\* {reusable: true, tags: ["tag:ci"]} created a key and returned its JSON.
C15_Witness ==
  /\ Completed
  /\ CalledTool = "tailscale_key_create"
  /\ call.request.arguments =
       JObj(("reusable" :> JBool(TRUE)) @@ ("tags" :> JArr(<<"tag:ci">>)))
  /\ call.remote[1].req.Capabilities.Devices.Create =
       [Reusable |-> TRUE, Ephemeral |-> FALSE, Tags |-> <<"tag:ci">>,
        Preauthorized |-> FALSE]
  /\ ~call.result.isError
  /\ ResultText[1] = "{"

(***************************************************************************)
(* C16                                                                     *)
(***************************************************************************)
\* The string the call supplies for the parameter n, "" when omitted.
SuppliedString(request, n) ==
  IF Supplies(request, n) THEN request.arguments.fields[n].s ELSE ""

Words(text) == {text[i] : i \in 1..Len(text)}

\* The text shows the value j of an argument: a string or the members of a
\* list as they are, a boolean as the state it stands for.
Echoes(text, j) ==
  CASE j.kind = "string" -> j.s \in Words(text)
    [] j.kind = "array" -> {j.a[i] : i \in 1..Len(j.a)} \subseteq Words(text)
    [] j.kind = "bool" ->
         Words(text) \cap (IF j.b THEN {"authorized", "MagicDNS=true"}
                           ELSE {"deauthorized", "MagicDNS=false"}) # {}
    [] OTHER -> FALSE

\* The call supplies arguments and the text shows every one of them.
EchoesArguments(text, request) ==
  /\ request.arguments.kind = "object"
  /\ \A n \in DOMAIN request.arguments.fields :
       n \in {p.name : p \in DeclaredParams(request.name)} =>
         Echoes(text, request.arguments.fields[n])

\* An accepted call of a mutating tool has returned and every remote call
\* it made succeeded.
MutationSucceeded ==
  /\ Completed
  /\ CalledTool \in MutatingTools
  /\ Accepted(call.request)
  /\ \A i \in 1..Len(call.outs) : call.outs[i].err = NoErr

\* The exact confirmation of tailscale_device_authorize.
AuthorizeConfirmed ==
  CalledTool = "tailscale_device_authorize" =>
    ResultText = <<"Device", SuppliedString(call.request, "device_id"),
                   IF SuppliedBool(call.request, "authorized")
                   THEN "authorized" ELSE "deauthorized",
                   "successfully">>

\* The tools that return the record the remote API returned.
RecordTools ==
  {"tailscale_key_create", "tailscale_webhook_create",
   "tailscale_device_posture_integration_create",
   "tailscale_tailnet_settings_update"}

\* C16 as stated: on remote success every mutating tool returns a non-empty
\* text that echoes the identifier and the new state given in the call's
\* arguments; tailscale_device_authorize returns exactly "Device d
\* authorized successfully" or "Device d deauthorized successfully".
\* (The record that a create tool or the settings update returns is taken
\* to show the new state.)
C16_EchoesIdentifierAndState ==
  (MutationSucceeded /\ call.request.arguments.kind = "object") =>
    /\ ResultText # <<>>
    /\ CalledTool \notin RecordTools =>
         /\ ~call.result.isError
         /\ EchoesArguments(ResultText, call.request)
    /\ AuthorizeConfirmed

\* C16 as amended: on remote success no mutating tool returns an empty
\* result.  The policy tools return a fixed confirmation, the create tools
\* and the settings update return the indented JSON of the record the
\* remote API returned (or the error that it cannot be encoded), and every
\* other mutating tool returns a text that echoes the identifier and the
\* new state given in the arguments, tailscale_device_authorize exactly
\* "Device d authorized successfully" or "Device d deauthorized
\* successfully".
C16_SuccessReported ==
  MutationSucceeded =>
    /\ ResultText # <<>>
    /\ CASE CalledTool = "tailscale_policy_set" ->
              call.result = NewToolResultText(
                <<"Policy", "file", "updated", "successfully">>)
         [] CalledTool = "tailscale_policy_validate" ->
              call.result = NewToolResultText(
                <<"Policy", "validation", "passed">>)
         [] CalledTool \in RecordTools ->
              LET m == MarshalIndent(call.outs[Len(call.outs)].val)
              IN IF m.err = NoErr
                 THEN call.result = NewToolResultText(m.text)
                 ELSE /\ call.result.isError
                      /\ HasPrefix(ResultText, <<"Failed", "to", "marshal">>)
         [] OTHER ->
              /\ ~call.result.isError
              /\ call.request.arguments.kind = "object" =>
                   EchoesArguments(ResultText, call.request)
              /\ AuthorizeConfirmed

\* Device d-1 was deauthorized and the confirmation says so.
C16_Witness ==
  /\ MutationSucceeded
  /\ CalledTool = "tailscale_device_authorize"
  /\ call.request.arguments =
       JObj(("device_id" :> JStr("d-1")) @@ ("authorized" :> JBool(FALSE)))
  /\ call.result =
       NewToolResultText(<<"Device", "d-1", "deauthorized", "successfully">>)

(***************************************************************************)
(* C17                                                                     *)
(***************************************************************************)
\* The dispatch d is inside GetClient, holding the lock.
InGetClient(d) == disp[d].at \in {"read", "RUnlock"}

\* C17: no call waits for another call on the client handle's lock: the
\* write lock is never held; the read lock is held by exactly the calls
\* that are inside GetClient, so it is released before GetClient returns
\* and is not held while a remote request is in flight; and a call that
\* reaches GetClient's RLock gets the lock at once, however many other
\* calls hold it.
C17_NoWaitingOnClientLock ==
  /\ mu.writer = {}
  /\ mu.readers = {d \in Dispatches : InGetClient(d)}
  /\ \A d \in Dispatches :
       /\ disp[d].at \in {"idle", "remote", "completed"} => d \notin mu.readers
       /\ disp[d].at = "RLock" =>
            /\ GetClient_Lock(mu, d).ok
            /\ ENABLED GetClientRLock(d)

\* Every dispatch holds the read lock at the same time.
C17_Witness ==
  /\ mu.readers = Dispatches
  /\ \A d \in Dispatches : disp[d].at = "read"

(***************************************************************************)
(* C18                                                                     *)
(***************************************************************************)
\* The dispatch d has read the client in GetClient.
HasClient(d) == disp[d].at # "idle" /\ disp[d].client # NilPtr

\* C18: the client handle is never reassigned once it is constructed, and
\* its client is the one NewTailscaleClient built from the configuration;
\* whatever calls are interleaved, every call that has gone through
\* GetClient has got that very client; GetClient's read changes nothing
\* but the caller's local variable, and once no call is inside GetClient
\* the mutex is as it was constructed.
C18_ClientNeverReassigned ==
  /\ [][tc # NilClient => tc' = tc]_vars
  /\ [](tc # NilClient => tc = NewTailscaleClient(cfg).tc)
  /\ [](\A d \in Dispatches :
          /\ HasClient(d) => disp[d].client = Ptr(NewTailscaleClient(cfg).tc.client)
          /\ disp[d].at \in {"RUnlock", "remote"} => HasClient(d))
  /\ [][\A d \in Dispatches :
          (disp[d].at = "read" /\ disp'[d].at = "RUnlock") =>
            UNCHANGED <<pc, env, cfg, tc, probe, fatal, registry, call, mu,
                        policy>>]_vars
  /\ []((\A d \in Dispatches : ~InGetClient(d)) => mu = UnlockedMutex)

\* Two calls at different places hold the same client while a third is
\* inside GetClient.
C18_Witness ==
  /\ disp[1].at = "remote"
  /\ disp[2].at = "completed"
  /\ HasClient(1) /\ HasClient(2)
  /\ disp[1].client = disp[2].client
  /\ disp[1].client = Ptr(tc.client)
  /\ \E d \in Dispatches : disp[d].at = "read"

(***************************************************************************)
(* C19                                                                     *)
(***************************************************************************)
\* The call supplies, for a parameter its tool declares, a value of another
\* JSON type than the declared one.
Mistyped(request) ==
  /\ request.arguments.kind = "object"
  /\ \E p \in DeclaredParams(request.name) :
       /\ Supplies(request, p.name)
       /\ request.arguments.fields[p.name].kind # JsonKindOfDeclared(p.type)

\* C19: a call with an argument of the wrong type for its field goes
\* straight to completed with the error result "Invalid arguments: ...";
\* the handler neither obtains the client nor issues a remote request.
C19_TypeMismatchRejected ==
  (Active /\ Mistyped(call.request)) =>
    /\ Completed
    /\ call.outs = <<>>
    /\ call.remote = <<>>
    /\ ~call.gotClient
    /\ call.result.isError
    /\ HasPrefix(ResultText, <<"Invalid", "arguments:", "json:", "cannot",
                               "unmarshal">>)

\* tailscale_device_authorize was called with the string "yes" for
\* authorized and was rejected.
C19_Witness ==
  /\ Completed
  /\ CalledTool = "tailscale_device_authorize"
  /\ SuppliesValue(call.request, "device_id", JStr("d-1"))
  /\ SuppliesValue(call.request, "authorized", JStr("yes"))
  /\ call.remote = <<>>
  /\ call.result.isError

(***************************************************************************)
(* C20                                                                     *)
(***************************************************************************)
\* The field of UpdateTailnetSettingsRequest that the parameter n sets.
SettingsField(n) ==
  CASE n = "devices_approval_on" -> "DevicesApprovalOn"
    [] n = "devices_auto_updates_on" -> "DevicesAutoUpdatesOn"
    [] n = "devices_key_duration_days" -> "DevicesKeyDurationDays"
    [] n = "users_approval_on" -> "UsersApprovalOn"
    [] n = "users_role_allowed_to_join_external_tailnets" ->
         "UsersRoleAllowedToJoinExternalTailnets"
    [] n = "network_flow_logging_on" -> "NetworkFlowLoggingOn"
    [] n = "regional_routing_on" -> "RegionalRoutingOn"
    [] OTHER -> "PostureIdentityCollectionOn"

\* The Go value a JSON value stands for.
JValue(j) ==
  CASE j.kind = "string" -> j.s
    [] j.kind = "bool" -> j.b
    [] j.kind = "number" -> j.n
    [] OTHER -> j.a

\* C20: the update request that a tailscale_tailnet_settings_update call
\* whose arguments decode sends first has, for each of the eight settings,
\* the field set to the supplied value when the argument was supplied and
\* unset when it was omitted.
C20_SettingsPatch ==
  (Active /\ CalledTool = "tailscale_tailnet_settings_update"
   /\ WellTyped(call.request)) =>
    /\ Len(call.remote) >= 1
    /\ call.remote[1].op = "TailnetSettings.Update"
    /\ DOMAIN call.remote[1].req =
         {SettingsField(n) : n \in DOMAIN SettingsStruct}
    /\ \A n \in DOMAIN SettingsStruct :
         call.remote[1].req[SettingsField(n)] =
           IF Supplies(call.request, n)
           THEN Ptr(JValue(call.request.arguments.fields[n]))
           ELSE NilPtr

\* An update that supplied two of the eight settings was sent and read
\* back.
C20_Witness ==
  /\ Completed
  /\ CalledTool = "tailscale_tailnet_settings_update"
  /\ call.request.arguments =
       JObj(("devices_approval_on" :> JBool(FALSE))
            @@ ("devices_key_duration_days" :> JNum(60)))
  /\ Len(call.remote) = 2
  /\ call.remote[1].req.DevicesApprovalOn = Ptr(FALSE)
  /\ call.remote[1].req.DevicesKeyDurationDays = Ptr(60)
  /\ call.remote[1].req.UsersApprovalOn = NilPtr
  /\ ~call.result.isError

(***************************************************************************)
(* C21                                                                     *)
(***************************************************************************)
\* The last request of the call was answered without error by a value
\* that json.MarshalIndent cannot encode.  (The policy is returned as the
\* text it is and is not encoded.)
GotUnencodable ==
  /\ Active
  /\ Len(call.outs) > 0
  /\ Len(call.outs) = Len(call.remote)
  /\ call.remote[Len(call.remote)].op # "PolicyFile.Raw"
  /\ call.outs[Len(call.outs)].err = NoErr
  /\ MarshalIndent(call.outs[Len(call.outs)].val).err # NoErr

\* C21: when a remote call succeeds with a value that cannot be encoded as
\* JSON, the call is completed, not pending, with a result and no Go
\* error, and the result is the error "Failed to marshal ...: <encoding
\* error>".
C21_MarshalFailureReported ==
  GotUnencodable =>
    /\ Completed
    /\ call.err = NoErr
    /\ call.result # NilResult
    /\ call.result.isError
    /\ HasPrefix(ResultText, <<"Failed", "to", "marshal">>)
    /\ HasSuffix(ResultText,
                 MarshalIndent(call.outs[Len(call.outs)].val).err)

\* A created key could not be encoded.
C21_Witness ==
  /\ GotUnencodable
  /\ CalledTool = "tailscale_key_create"
  /\ HasPrefix(ResultText, <<"Failed", "to", "marshal", "key:">>)

(***************************************************************************)
(* C22                                                                     *)
(***************************************************************************)
\* C22: nothing is retried: when a remote call of a tool call fails, the
\* handler returns at once with an error result that ends with the
\* underlying error; the failed request is the last one the call issued
\* and was issued exactly once.
C22_NeverRetries ==
  Active =>
    \A i \in 1..Len(call.outs) :
      call.outs[i].err # NoErr =>
        /\ Completed
        /\ i = Len(call.outs)
        /\ Len(call.remote) = i
        /\ Cardinality({j \in 1..Len(call.remote) :
                          call.remote[j] = call.remote[i]}) = 1
        /\ call.result.isError
        /\ HasSuffix(ResultText, call.outs[i].err)

\* Setting the DNS nameservers failed after its one remote call.
C22_Witness ==
  /\ Completed
  /\ CalledTool = "tailscale_dns_nameservers_set"
  /\ LastOutcomeFailed
  /\ Len(call.remote) = 1
  /\ call.remote[1].op = "DNS.SetNameservers"
  /\ HasPrefix(ResultText, <<"Failed", "to", "set", "nameservers:">>)

(***************************************************************************)
(* C23                                                                     *)
(*                                                                         *)
(* Deserializing a text as JSON: the text is an object of string members,  *)
(* one member per pair of words, and a member's key and value are the      *)
(* strings whose quoted forms the words are.  [] is the empty array.       *)
(***************************************************************************)
JsonStrings ==
  UNION {{v[i].k : i \in 1..Len(v)} \cup {v[i].s : i \in 1..Len(v)} :
         v \in RemoteValues}

SyntaxError == <<"invalid", "character">>

UnmarshalKey(w) == {k \in JsonStrings : Quote(k) \o ":" = w}

UnmarshalValue(w, last) ==
  LET sep == IF last THEN "" ELSE ","
  IN {JStr(s) : s \in {t \in JsonStrings : Quote(t) \o sep = w}}
     \cup (IF w = "[]" \o sep THEN {JArr(<<>>)} ELSE {})

Unmarshal(text) ==
  IF \/ Len(text) < 2
     \/ text[1] # "{"
     \/ text[Len(text)] # "}"
     \/ (Len(text) - 2) % 2 # 0
  THEN [err |-> SyntaxError, val |-> <<>>]
  ELSE LET n == (Len(text) - 2) \div 2
           keys == [i \in 1..n |-> UnmarshalKey(text[2 * i])]
           values == [i \in 1..n |-> UnmarshalValue(text[2 * i + 1], i = n)]
       IN IF \E i \in 1..n : keys[i] = {} \/ values[i] = {}
          THEN [err |-> SyntaxError, val |-> <<>>]
          ELSE [err |-> NoErr,
                val |-> [i \in 1..n |->
                           [k |-> CHOOSE k \in keys[i] : TRUE,
                            v |-> CHOOSE v \in values[i] : TRUE]]]

\* The structure of a response value: its members in order, a time being
\* its RFC 3339 text; the policy file is its HuJSON text and its ETag.
StructureOf(op, val) ==
  IF op = "PolicyFile.Raw"
  THEN <<[k |-> "HuJSON", v |-> [kind |-> "text", words |-> val.HuJSON]],
         [k |-> "ETag", v |-> JStr(val.ETag)]>>
  ELSE [i \in 1..Len(val) |-> [k |-> val[i].k, v |-> JStr(val[i].s)]]

SameStructure(a, b) ==
  /\ Len(a) = Len(b)
  /\ \A i \in 1..Len(a) :
       /\ a[i].k = b[i].k
       /\ a[i].v.kind = b[i].v.kind
       /\ a[i].v.kind = "string" => a[i].v.s = b[i].v.s
       /\ a[i].v.kind = "text" => a[i].v.words = b[i].v.words

ReadTools ==
  {"tailscale_devices_list", "tailscale_device_get",
   "tailscale_device_routes_list", "tailscale_keys_list",
   "tailscale_key_get", "tailscale_users_list", "tailscale_user_get",
   "tailscale_contacts_get", "tailscale_dns_nameservers_get",
   "tailscale_dns_preferences_get", "tailscale_dns_searchpaths_get",
   "tailscale_policy_get", "tailscale_webhooks_list",
   "tailscale_webhook_get", "tailscale_logging_configuration_get",
   "tailscale_logging_network_get",
   "tailscale_device_posture_integrations_list",
   "tailscale_device_posture_integration_get",
   "tailscale_tailnet_settings_get"}

\* The call got a value from the remote API and returned a text result.
GotTextOfValue ==
  /\ Completed
  /\ Len(call.outs) = 1
  /\ call.outs[1].err = NoErr
  /\ call.err = NoErr
  /\ ~call.result.isError

RoundTrips ==
  LET u == Unmarshal(ResultText)
  IN /\ u.err = NoErr
     /\ SameStructure(u.val, StructureOf(call.remote[1].op, call.outs[1].val))

\* C23 as stated: the text result of every read tool, the policy's
\* included, deserializes as JSON to the structure of the value the
\* remote API returned.
C23_RoundTripOfEveryReadTool ==
  (GotTextOfValue /\ CalledTool \in ReadTools) => RoundTrips

\* C23: the text result of every read tool but tailscale_policy_get
\* deserializes as JSON to the structure of the value the remote API
\* returned; the text result of tailscale_policy_get is the HuJSON text of
\* the policy file, as it is.
C23_RoundTrip ==
  (GotTextOfValue /\ CalledTool \in ReadTools) =>
    IF CalledTool = "tailscale_policy_get"
    THEN ResultText = call.outs[1].val.HuJSON
    ELSE RoundTrips

\* A device was read and its two members came back from the text.
C23_Witness ==
  /\ GotTextOfValue
  /\ CalledTool = "tailscale_device_get"
  /\ RoundTrips
  /\ Len(Unmarshal(ResultText).val) = 2

(***************************************************************************)
(* C24                                                                     *)
(***************************************************************************)
\* The tools that declare no required parameter.
ZeroRequiredTools ==
  {n \in DOMAIN registry : \A p \in DeclaredParams(n) : ~p.required}

\* The call supplies no argument: the arguments are absent or an empty
\* object.
NoArguments(request) ==
  \/ request.arguments = NilArgs
  \/ request.arguments.kind = "object" /\ DOMAIN request.arguments.fields = {}

\* C24: a call without arguments of a tool that requires none is never
\* answered with a validation error: its handler issues its remote request
\* with the defaults, that is the standard device list, a key with no
\* capability set and no tags, and a settings update that sets no field.
C24_NoArgumentsExecutes ==
  (Active /\ CalledTool \in ZeroRequiredTools /\ NoArguments(call.request)) =>
    /\ Len(call.remote) >= 1
    /\ call.gotClient
    /\ Completed => ~HasPrefix(ResultText, <<"Invalid", "arguments:">>)
    /\ CalledTool = "tailscale_devices_list" =>
         call.remote[1] = [op |-> "Devices.List"]
    /\ CalledTool = "tailscale_key_create" =>
         /\ call.remote[1].op = "Keys.Create"
         /\ call.remote[1].req.Capabilities.Devices.Create
              = [Reusable |-> FALSE, Ephemeral |-> FALSE, Tags |-> <<>>,
                 Preauthorized |-> FALSE]
         /\ call.remote[1].req.Description = ""
         /\ call.remote[1].req.ExpirySeconds = 0
    /\ CalledTool = "tailscale_tailnet_settings_update" =>
         /\ call.remote[1].op = "TailnetSettings.Update"
         /\ \A n \in DOMAIN SettingsStruct :
              call.remote[1].req[SettingsField(n)] = NilPtr

\* The settings update was called with absent arguments and is waiting for
\* the remote API; fifteen tools require no parameter.
C24_Witness ==
  /\ call.st = "executing"
  /\ CalledTool = "tailscale_tailnet_settings_update"
  /\ call.request.arguments = NilArgs
  /\ Len(call.remote) = 1
  /\ Cardinality(ZeroRequiredTools) = 15

(***************************************************************************)
(* C25                                                                     *)
(***************************************************************************)
\* The call carries a field its tool does not declare.
HasUnknown(request) ==
  /\ request.arguments.kind = "object"
  /\ DOMAIN request.arguments.fields \ {p.name : p \in DeclaredParams(request.name)}
       # {}

\* The same call without the fields its tool does not declare.
WithoutUnknown(request) ==
  LET declared == {p.name : p \in DeclaredParams(request.name)}
      f == request.arguments.fields
  IN [request EXCEPT
        !.arguments = JObj([n \in DOMAIN f \cap declared |-> f[n]])]

ListDevicesProbe == [op |-> "Devices.List"]

OnItsOwn(d) ==
  Invoke(registry[disp[d].request.name].handler, disp[d].request, disp[d].outs)

\* The call d got an answer without error to its last remote request.
Succeeded(d) ==
  /\ disp[d].at = "completed"
  /\ Len(disp[d].outs) > 0
  /\ disp[d].outs[Len(disp[d].outs)].err = NoErr

UpdatedButNotRead ==
  /\ Active
  /\ CalledTool = "tailscale_tailnet_settings_update"
  /\ Len(call.outs) = 2
  /\ call.outs[1].err = NoErr
  /\ call.outs[2].err # NoErr

\* C28: tailscale_tailnet_settings_update is an update followed by a read;
\* when the update has succeeded and the read fails, the call ends with the
\* error result "Failed to get updated tailnet settings: <error>", although
\* the update request was issued and answered without error; between the
\* two requests the call is pending with the update already applied.
C28_UpdateThenRead ==
  /\ UpdatedButNotRead =>
       /\ Completed
       /\ Len(call.remote) = 2
       /\ call.remote[1].op = "TailnetSettings.Update"
       /\ call.remote[2] = [op |-> "TailnetSettings.Get"]
       /\ call.err = NoErr
       /\ call.result.isError
       /\ ResultText = <<"Failed", "to", "get", "updated", "tailnet",
                         "settings:">> \o call.outs[2].err
  /\ (Active /\ CalledTool = "tailscale_tailnet_settings_update"
        /\ Len(call.outs) = 1 /\ call.outs[1].err = NoErr) =>
       /\ call.st = "executing"
       /\ Len(call.remote) = 2
       /\ call.remote[2] = [op |-> "TailnetSettings.Get"]

\* An update that set devices_approval_on was applied and could not be read
\* back.
C28_Witness ==
  /\ UpdatedButNotRead
  /\ Completed
  /\ call.remote[1].req.DevicesApprovalOn = Ptr(TRUE)
  /\ call.outs[2].err = <<"forbidden", "(403)">>
  /\ call.result.isError

(***************************************************************************)
(* C29                                                                     *)
(***************************************************************************)
\* The call d sets the policy file.
SetsPolicy(d) ==
  disp[d].at # "idle" /\ disp[d].request.name = "tailscale_policy_set"

PolicyOf(d) == disp[d].request.arguments.fields["policy"].s

ExpiresDevice ==
  /\ Active
  /\ CalledTool = "tailscale_device_expire"
  /\ Supplies(call.request, "device_id")
  /\ call.request.arguments.fields["device_id"].kind = "string"

\* C30: tailscale_device_expire issues exactly one SetKey request, for the
\* device of the call and with KeyExpiryDisabled false; when the request
\* succeeds the result is "Device <id> expired successfully", when it
\* fails the result is the error "Failed to set device key expiry:
\* <error>".
C30_ExpireDevice ==
  ExpiresDevice =>
    LET id == call.request.arguments.fields["device_id"].s
    IN /\ call.remote = <<[op |-> "Devices.SetKey", id |-> id,
                           key |-> [KeyExpiryDisabled |-> FALSE]]>>
       /\ Completed <=> Len(call.outs) = 1
       /\ Completed =>
            /\ call.err = NoErr
            /\ IF call.outs[1].err = NoErr
               THEN call.result =
                      NewToolResultText(<<"Device", id, "expired",
                                          "successfully">>)
               ELSE call.result =
                      NewToolResultError(<<"Failed", "to", "set", "device",
                                           "key", "expiry:">>
                                         \o call.outs[1].err)

\* The key of device d-1 was expired.
C30_Witness ==
  /\ ExpiresDevice
  /\ Completed
  /\ call.outs[1].err = NoErr
  /\ ResultText = <<"Device", "d-1", "expired", "successfully">>

====
